---- MODULE Spec2Model ----
(***************************************************************************)
(* THOR MIND: the semantic memory core (src/src/mind/semantic_memory.py)    *)
(* and the marker registry (src/src/mind/marker_manager.py).                *)
(*                                                                         *)
(* Numbers.  The code computes in floats; the model computes exactly, in    *)
(* fixed units: an importance is an integer count of 1/ImpUnit, an axis     *)
(* position an integer count of 1/PosUnit.  Every importance the scoring    *)
(* can produce is a multiple of 1/ImpUnit.                                  *)
(***************************************************************************)
EXTENDS Integers, Sequences, FiniteSets, TLC

(* ----------------------------------------------------------------------- *)
(* Bounds of the model                                                     *)
(* ----------------------------------------------------------------------- *)
MaxCalls == 2
MaxLongThoughts == 11
MaxDepth == 6
MaxInstances == 2
MaxUsage == 2
MaxPersistCalls == 1
MaxAnchors == 1
MaxTicks == 2
MaxConnectThoughts == 8
MaxDriftCalls == 6
MaxNoteThoughts == 11
MaxGrowthCalls == 3
MaxShiftCalls == 4

(* ----------------------------------------------------------------------- *)
(* Fixed-point units                                                       *)
(* ----------------------------------------------------------------------- *)
ImpUnit == 63 * 1000
PosUnit == 20 * ImpUnit
Tenth(n) == n * (ImpUnit \div 10)

MinOf(a, b) == IF a <= b THEN a ELSE b
MaxOf(a, b) == IF a >= b THEN a ELSE b
AbsOf(a) == IF a >= 0 THEN a ELSE 0 - a

(* ----------------------------------------------------------------------- *)
(* Strings: str.lower(), `p in s`, s[:n]                                   *)
(* ----------------------------------------------------------------------- *)
UpperChars == "ABCDEFGHIJKLMNOPQRSTUVWXYZÄÖÜ"
LowerChars == "abcdefghijklmnopqrstuvwxyzäöü"

LowerOf ==
    [c \in {SubSeq(UpperChars, i, i) : i \in 1..Len(UpperChars)} |->
        LET i == CHOOSE j \in 1..Len(UpperChars) : SubSeq(UpperChars, j, j) = c
        IN SubSeq(LowerChars, i, i)]

LowerChar(c) == IF c \in DOMAIN LowerOf THEN LowerOf[c] ELSE c

RECURSIVE Lower(_)
Lower(s) ==
    IF Len(s) = 0 THEN ""
    ELSE IF Len(s) = 1 THEN LowerChar(s)
    ELSE LET h == Len(s) \div 2
         IN Lower(SubSeq(s, 1, h)) \o Lower(SubSeq(s, h + 1, Len(s)))

Contains(s, p) ==
    \E i \in 1..(Len(s) - Len(p) + 1) : SubSeq(s, i, i + Len(p) - 1) = p

AnyIn(words, s) == \E w \in words : Contains(s, w)

Prefix(s, n) == SubSeq(s, 1, MinOf(n, Len(s)))

(* ----------------------------------------------------------------------- *)
(* dict helpers: a dict is a function on a set of string keys              *)
(* ----------------------------------------------------------------------- *)
EmptyDict == [k \in {} |-> ""]
Truthy(v) == v \notin {"", "False", "None", "0"}
Get(d, k) == IF k \in DOMAIN d THEN d[k] ELSE "None"

(* ----------------------------------------------------------------------- *)
(* _initialize_skk_markers: the five SKK markers, in dict insertion order  *)
(* ----------------------------------------------------------------------- *)
MarkerOrder ==
    << "user_interaction", "task_completion", "learning_moment",
       "error_occurred", "reflection_trigger" >>

SkkMarkers ==
    [ user_interaction |->
        [ category |-> "user",
          trigger_patterns |-> {"user spoke", "command received", "question asked"},
          semantic_weight |-> 8 ],
      task_completion |->
        [ category |-> "success",
          trigger_patterns |-> {"task completed", "file operation success", "command executed"},
          semantic_weight |-> 9 ],
      learning_moment |->
        [ category |-> "learning",
          trigger_patterns |-> {"new pattern", "user correction", "improved understanding"},
          semantic_weight |-> 10 ],
      error_occurred |->
        [ category |-> "error",
          trigger_patterns |-> {"error", "failed", "exception", "could not"},
          semantic_weight |-> 7 ],
      reflection_trigger |->
        [ category |-> "system",
          trigger_patterns |-> {"why did", "reflection", "analyze", "understand myself"},
          semantic_weight |-> 8 ] ]

(* _detect_skk_markers: a marker is appended once when a pattern matches   *)
(* and once more when its category equals the event type.                  *)
DetectSkkMarkers(content, event_type) ==
    LET content_lower == Lower(content)
        F[i \in 0..Len(MarkerOrder)] ==
            IF i = 0 THEN << >>
            ELSE LET m == MarkerOrder[i]
                 IN F[i - 1]
                    \o (IF \E p \in SkkMarkers[m].trigger_patterns :
                              Contains(content_lower, Lower(p))
                        THEN << m >> ELSE << >>)
                    \o (IF SkkMarkers[m].category = event_type
                        THEN << m >> ELSE << >>)
    IN F[Len(MarkerOrder)]

(* a tone analysis that tests the negative words before the others *)
NegativeFirst(content) ==
    IF AnyIn({"fehler", "problem", "schwierig", "nicht", "kann nicht", "unmöglich"},
             Lower(content))
    THEN "negative" ELSE "neutral"

(* _analyze_emotional_tone *)
AnalyzeEmotionalTone(content) ==
    LET content_lower == Lower(content)
        positive_words == {"erfolgreich", "gelungen", "gut", "freue", "toll", "super", "perfekt"}
        negative_words == {"fehler", "problem", "schwierig", "nicht", "kann nicht", "unmöglich"}
        curious_words == {"warum", "wie", "was ist", "verstehe", "lerne", "interessant"}
        frustrated_words == {"wieder nicht", "immer noch", "verstehe nicht", "funktioniert nicht"}
    IN IF AnyIn(frustrated_words, content_lower) THEN "frustrated"
       ELSE IF AnyIn(curious_words, content_lower) THEN "curious"
       ELSE IF AnyIn(positive_words, content_lower) THEN "positive"
       ELSE IF AnyIn(negative_words, content_lower) THEN "negative"
       ELSE "neutral"

(* list(set(tags)): the elements of a list without duplicates.  The order  *)
(* of a Python set is unspecified; the model has two orders, chosen by the *)
(* process's hash seed: first occurrence first, or first occurrence last.  *)
Dedup(s) ==
    LET F[i \in 0..Len(s)] ==
            IF i = 0 THEN << >>
            ELSE LET prev == F[i - 1]
                 IN IF \E j \in 1..Len(prev) : prev[j] = s[i]
                    THEN prev ELSE Append(prev, s[i])
    IN F[Len(s)]

Reverse(s) == [i \in 1..Len(s) |-> s[Len(s) + 1 - i]]

ListOfSet(s, seed) == IF seed = 1 THEN Dedup(s) ELSE Reverse(Dedup(s))

Range(s) == {s[i] : i \in 1..Len(s)}

(* _extract_semantic_tags *)
ExtractSemanticTags(content, context, markers, seed) ==
    LET content_lower == Lower(content)
        cats == [i \in 1..Len(markers) |-> SkkMarkers[markers[i]].category]
        dom(words, tag) == IF AnyIn(words, content_lower) THEN << tag >> ELSE << >>
        tags == cats
                \o dom({"datei", "ordner", "kopiere", "verschiebe"}, "file_management")
                \o dom({"code", "programmier", "debug", "script"}, "coding")
                \o dom({"benutzer", "user", "ich", "sie"}, "interpersonal")
                \o dom({"lerne", "verstehe", "neu", "entdecke"}, "learning")
                \o dom({"denke", "glaube", "meine", "überleg"}, "introspection")
                \o (IF Truthy(Get(context, "user_present"))
                    THEN << "user_interaction" >> ELSE << >>)
                \o (IF Truthy(Get(context, "task_type"))
                    THEN << "task_" \o context["task_type"] >> ELSE << >>)
    IN ListOfSet(tags, seed)

(* _calculate_importance, in units of 1/ImpUnit *)
SumWeights(markers) ==
    LET F[i \in 0..Len(markers)] ==
            IF i = 0 THEN 0 ELSE F[i - 1] + SkkMarkers[markers[i]].semantic_weight
    IN F[Len(markers)]

(* the score without the cap of line 418 *)
UncappedImportance(x) == x

ClipImportance(x) == MinOf(x, Tenth(10))

CalculateImportance(content, context, markers) ==
    LET base == Tenth(3)
        marker_part ==
            IF Len(markers) > 0
            THEN (SumWeights(markers) * 4 * (ImpUnit \div 100)) \div Len(markers)
            ELSE 0
        cue == IF AnyIn({"wichtig", "bedeutend", "verstehe", "lerne"}, Lower(content))
               THEN Tenth(2) ELSE 0
        c1 == IF Truthy(Get(context, "user_correction")) THEN Tenth(3) ELSE 0
        c2 == IF Truthy(Get(context, "first_time")) THEN Tenth(2) ELSE 0
        c3 == IF Truthy(Get(context, "error_recovery")) THEN Tenth(3) ELSE 0
    IN ClipImportance(base + marker_part + cue + c1 + c2 + c3)

(* an analysis that files a thought under its tone *)
ToneAsAxis(content, emotional_tone) == emotional_tone

(* _analyze_drift_implications *)
AnalyzeDriftImplications(content, emotional_tone) ==
    LET content_lower == Lower(content)
    IN IF AnyIn({"kann", "fähig", "erfolgreich", "schaffe"}, content_lower)
       THEN "competence_confidence"
       ELSE IF AnyIn({"benutzer", "user", "hilfe", "zusammen"}, content_lower)
       THEN "user_relationship"
       ELSE IF AnyIn({"selbst", "eigene", "autonome", "entscheide"}, content_lower)
       THEN "autonomy_dependency"
       ELSE IF AnyIn({"neugierig", "interessant", "warum", "erkunde"}, content_lower)
       THEN "curiosity_focus"
       ELSE IF emotional_tone \in {"positive", "negative", "frustrated"}
       THEN "emotional_resonance"
       ELSE "competence_confidence"

(* ----------------------------------------------------------------------- *)
(* Timestamps: datetime values [sec, usec]; the model's clock moves in     *)
(* quarter seconds, so usec is a multiple of 250000.                        *)
(* ----------------------------------------------------------------------- *)
QuartersPerDay == 4 * 24 * 3600
Quarters(ts) == ts.sec * 4 + (ts.usec \div 250000)
AddQuarters(ts, q) ==
    LET n == Quarters(ts) + q
    IN [sec |-> n \div 4, usec |-> (n % 4) * 250000]

(* ----------------------------------------------------------------------- *)
(* _calculate_semantic_similarity: the value is SimNum / (10 * SimDen)     *)
(* ----------------------------------------------------------------------- *)
SimDen(t1, t2) ==
    LET tu == Cardinality(Range(t1.tags) \cup Range(t2.tags))
        mu == Cardinality(Range(t1.skk_markers) \cup Range(t2.skk_markers))
    IN MaxOf(tu, 1) * MaxOf(mu, 1) * QuartersPerDay

SimNum(t1, t2) ==
    LET tags1 == Range(t1.tags)
        tags2 == Range(t2.tags)
        tu == Cardinality(tags1 \cup tags2)
        ti == Cardinality(tags1 \cap tags2)
        markers1 == Range(t1.skk_markers)
        markers2 == Range(t2.skk_markers)
        mu == Cardinality(markers1 \cup markers2)
        mi == Cardinality(markers1 \cap markers2)
        b == MaxOf(tu, 1)
        d == MaxOf(mu, 1)
        axis_similarity == IF t1.drift_axis = t2.drift_axis THEN 1 ELSE 0
        time_left == MaxOf(0, QuartersPerDay
                                  - AbsOf(Quarters(t1.timestamp) - Quarters(t2.timestamp)))
    IN   4 * ti * d * QuartersPerDay
       + 3 * mi * b * QuartersPerDay
       + 2 * axis_similarity * b * d * QuartersPerDay
       + b * d * time_left

(* The code adds four float terms and compares the sum with 0.3.  The     *)
(* float sum equals the exact sum except for rounding in the last place,   *)
(* which decides the comparison only when the exact sum is 0.3.  FloatTies *)
(* lists the cases <<tag overlap (reduced), marker overlap (reduced), same *)
(* axis, quarter seconds left of the day>> with exact sum 0.3 whose float  *)
(* sum is 0.30000000000000004.                                             *)
FloatTies ==
    { <<0, 1, 0, 1, 1, 345600>>, <<0, 1, 1, 4, 1, 86400>>, <<0, 1, 1, 5, 1, 138240>>,
      <<1, 2, 0, 1, 0, 345600>>, <<1, 2, 1, 4, 0, 86400>>, <<1, 2, 1, 5, 0, 138240>>,
      <<1, 3, 1, 3, 0, 230400>>, <<1, 4, 0, 1, 1, 0>>, <<1, 4, 1, 3, 0, 345600>>,
      <<1, 4, 2, 5, 0, 276480>>, <<1, 4, 3, 5, 0, 69120>>, <<1, 5, 0, 1, 1, 69120>>,
      <<1, 5, 2, 3, 0, 69120>>, <<1, 5, 2, 5, 0, 345600>>, <<1, 5, 3, 5, 0, 138240>>,
      <<1, 6, 1, 2, 0, 288000>>, <<1, 8, 1, 2, 0, 345600>>, <<1, 9, 0, 1, 1, 192000>>,
      <<1, 10, 0, 1, 1, 207360>>, <<1, 10, 1, 5, 1, 0>>, <<1, 10, 3, 5, 0, 276480>>,
      <<1, 10, 4, 5, 0, 69120>>, <<1, 12, 0, 1, 1, 230400>>, <<2, 5, 1, 3, 0, 138240>>,
      <<2, 5, 1, 4, 0, 224640>>, <<2, 5, 1, 5, 0, 276480>>, <<2, 5, 2, 5, 0, 69120>>,
      <<2, 9, 0, 1, 1, 38400>>, <<2, 9, 2, 5, 0, 314880>>, <<3, 4, 0, 1, 0, 0>>,
      <<3, 8, 1, 2, 0, 0>>, <<3, 8, 1, 4, 0, 259200>>, <<3, 8, 1, 5, 0, 311040>>,
      <<3, 8, 2, 5, 0, 103680>>, <<3, 10, 1, 2, 0, 103680>>, <<4, 9, 2, 5, 0, 7680>>,
      <<5, 9, 0, 1, 0, 268800>>, <<5, 9, 1, 5, 0, 61440>>, <<5, 12, 1, 4, 0, 201600>>,
      <<5, 12, 1, 5, 0, 253440>>, <<7, 12, 0, 1, 0, 230400>> }

TimeLeft(t1, t2) ==
    MaxOf(0, QuartersPerDay - AbsOf(Quarters(t1.timestamp) - Quarters(t2.timestamp)))

RoundsAbove(t1, t2) ==
    LET tags1 == Range(t1.tags)
        tags2 == Range(t2.tags)
        markers1 == Range(t1.skk_markers)
        markers2 == Range(t2.skk_markers)
        ti == Cardinality(tags1 \cap tags2)
        tu == MaxOf(Cardinality(tags1 \cup tags2), 1)
        mi == Cardinality(markers1 \cap markers2)
        mu == MaxOf(Cardinality(markers1 \cup markers2), 1)
        ax == IF t1.drift_axis = t2.drift_axis THEN 1 ELSE 0
    IN \E c \in FloatTies :
          /\ ti * c[2] = c[1] * tu
          /\ mi * c[4] = c[3] * mu
          /\ ax = c[5]
          /\ TimeLeft(t1, t2) = c[6]

(* a threshold of 0.5 instead of 0.3 *)
AboveHalf(t1, t2) == SimNum(t1, t2) > 5 * SimDen(t1, t2)

(* line 450: similarity > 0.3 *)
AboveThreshold(t1, t2) ==
    \/ SimNum(t1, t2) > 3 * SimDen(t1, t2)
    \/ SimNum(t1, t2) = 3 * SimDen(t1, t2) /\ RoundsAbove(t1, t2)

(* connections that keep the five thoughts stored last instead of the     *)
(* five stored first                                                       *)
LastConnections(thought, store) ==
    LET F[i \in 0..Len(store)] ==
            IF i = 0 THEN << >>
            ELSE LET prev == F[i - 1]
                 IN IF store[i].id # thought.id /\ AboveThreshold(thought, store[i])
                    THEN Append(prev, store[i].id)
                    ELSE prev
        all == F[Len(store)]
    IN SubSeq(all, MaxOf(1, Len(all) - 4), Len(all))

(* _find_semantic_connections: the ids of the stored thoughts above the    *)
(* threshold, in the store's order, cut to five.                           *)
FindSemanticConnections(thought, store) ==
    LET F[i \in 0..Len(store)] ==
            IF i = 0 THEN << >>
            ELSE IF store[i].id = thought.id THEN F[i - 1]
            ELSE IF AboveThreshold(thought, store[i])
                 THEN Append(F[i - 1], store[i].id)
                 ELSE F[i - 1]
    IN Prefix(F[Len(store)], 5)

(* a store that also records the new thought on the thoughts it connects   *)
(* to: the symmetric linking the code does not do                          *)
StoreThoughtLinked(store, thought) ==
    Append([i \in 1..Len(store) |->
               IF \E j \in 1..Len(thought.connections) :
                      thought.connections[j] = store[i].id
               THEN [store[i] EXCEPT !.connections = Append(@, thought.id)]
               ELSE store[i]],
           thought)

(* a store that evicts its oldest thought once it holds three *)
StoreThoughtCapped(store, thought) ==
    IF Len(store) >= 3 THEN Append(SubSeq(store, 2, Len(store)), thought)
    ELSE Append(store, thought)

(* line 306: self.thoughts[thought.id] = thought *)
StoreThought(store, thought) == Append(store, thought)

StoredIds(store) == {store[i].id : i \in 1..Len(store)}
ThoughtOf(store, id) == store[CHOOSE i \in 1..Len(store) : store[i].id = id]

(* _update_semantic_graph: the node, and an edge to every connection that  *)
(* is a node of the graph.                                                 *)
UpdateSemanticGraph(graph, thought) ==
    LET nodes == graph.nodes \cup {thought.id}
    IN [nodes |-> nodes,
        edges |-> graph.edges \cup
                  {<<thought.id, thought.connections[i]>> :
                      i \in {j \in 1..Len(thought.connections) :
                                 thought.connections[j] \in nodes}}]

(* the reflection condition of process_experience *)
Threshold == Tenth(7)
InclusiveThreshold(importance) == importance >= Threshold
ExceedsThreshold(importance) == importance > Threshold
ShouldReflect(importance, markers) ==
    ExceedsThreshold(importance) \/ "reflection_trigger" \in Range(markers)

(* _generate_reflection *)
(* the trigger's content quoted in full instead of its first 30 characters *)
QuotedWhole(content) == content
Quoted(content) == Prefix(content, 30)
GenerateReflection(trigger, store) ==
    LET related == Cardinality({i \in 1..Len(trigger.connections) :
                                   trigger.connections[i] \in StoredIds(store)})
        q == Quoted(trigger.content)
    IN IF trigger.emotional_tone = "frustrated"
       THEN "Ich bemerke Frustration bei '" \o q
            \o "...'. Das zeigt mir, dass ich in diesem Bereich noch lernen muss. Ähnliche Situationen waren: "
            \o ToString(related) \o " mal. Ich sollte systematischer vorgehen."
       ELSE IF trigger.emotional_tone = "positive"
       THEN "Der Erfolg bei '" \o q
            \o "...' bestätigt meine wachsenden Fähigkeiten. Ich verstehe diese Muster besser und kann sie reproduzieren."
       ELSE IF "learning" \in Range(trigger.tags)
       THEN "Neue Erkenntnis: '" \o q
            \o "...'. Das erweitert mein Verständnis und verbindet sich mit "
            \o ToString(related)
            \o " anderen Erfahrungen. Ich werde dies in zukünftige Entscheidungen einbeziehen."
       ELSE "Überdenke: '" \o q
            \o "...'. Diese Erfahrung fügt sich in mein wachsendes Verständnis meiner selbst und meiner Rolle ein."

(* the context _trigger_reflection passes on *)
ReflectionContext(trigger) ==
    [k \in {"trigger_thought_id", "reflection_depth", "self_initiated"} |->
        IF k = "trigger_thought_id" THEN ToString(trigger.id)
        ELSE IF k = "reflection_depth" THEN "deep" ELSE "True"]

(* ----------------------------------------------------------------------- *)
(* _update_self_narrative                                                  *)
(* ----------------------------------------------------------------------- *)
StartsWith(s, p) == Len(s) >= Len(p) /\ SubSeq(s, 1, Len(p)) = p

(* str.replace(old, new), every occurrence, left to right *)
ReplaceAll(s, old, new) ==
    LET n == Len(old)
        F[i \in 1..(Len(s) + 1)] ==
            IF i > Len(s) THEN ""
            ELSE IF i + n - 1 <= Len(s) /\ SubSeq(s, i, i + n - 1) = old
                 THEN new \o F[i + n]
                 ELSE SubSeq(s, i, i) \o F[i + 1]
    IN F[1]

DictSet(d, k, v) == [x \in DOMAIN d \cup {k} |-> IF x = k THEN v ELSE d[x]]

Capabilities(caps, thought) ==
    LET F[i \in 0..Len(thought.tags)] ==
            IF i = 0 THEN caps
            ELSE LET prev == F[i - 1]
                     tag == thought.tags[i]
                     capability == ReplaceAll(tag, "task_", "")
                     current == IF capability \in DOMAIN prev
                                THEN prev[capability] ELSE 5
                 IN IF StartsWith(tag, "task_")
                    THEN DictSet(prev, capability, MinOf(10, current + 1))
                    ELSE prev
    IN IF "task_completion" \in Range(thought.skk_markers)
          /\ thought.emotional_tone = "positive"
       THEN F[Len(thought.tags)] ELSE caps

(* preferences counted for every user interaction, whatever its tone *)
AnyTone(thought) == "user_interaction" \in Range(thought.skk_markers)

(* lines 540-541 *)
PreferenceCondition(thought) ==
    /\ "user_interaction" \in Range(thought.skk_markers)
    /\ thought.emotional_tone = "positive"

Preferences(prefs, thought) ==
    LET F[i \in 0..Len(thought.tags)] ==
            IF i = 0 THEN prefs
            ELSE LET prev == F[i - 1]
                     tag == thought.tags[i]
                 IN DictSet(prev, tag, (IF tag \in DOMAIN prev THEN prev[tag] ELSE 0) + 1)
    IN IF PreferenceCondition(thought) THEN F[Len(thought.tags)] ELSE prefs

(* growth areas appended without looking them up first *)
GrowthAreasLogged(areas, thought) ==
    IF thought.emotional_tone \in {"frustrated", "negative"}
       /\ "error" \in Range(thought.tags)
    THEN Append(areas, "Improve " \o ReplaceAll(thought.drift_axis, "_", " "))
    ELSE areas

(* lines 546-550 *)
GrowthAreas(areas, thought) ==
    LET growth_area == "Improve " \o ReplaceAll(thought.drift_axis, "_", " ")
    IN IF thought.emotional_tone \in {"frustrated", "negative"}
          /\ "error" \in Range(thought.tags)
          /\ growth_area \notin Range(areas)
       THEN Append(areas, growth_area) ELSE areas

UpdateSelfNarrative(narrative, thought, clock) ==
    [capabilities |-> Capabilities(narrative.capabilities, thought),
     preferences |-> Preferences(narrative.preferences, thought),
     growth_areas |-> GrowthAreas(narrative.growth_areas, thought),
     last_updated |-> clock]

(* ----------------------------------------------------------------------- *)
(* _update_cosd_axes, positions in units of 1/PosUnit                      *)
(* ----------------------------------------------------------------------- *)
AxisOrder ==
    << "competence_confidence", "user_relationship", "autonomy_dependency",
       "curiosity_focus", "emotional_resonance" >>
AxisNames == Range(AxisOrder)

PositionChange(thought) ==
    IF thought.emotional_tone = "positive" THEN 2 * thought.importance
    ELSE IF thought.emotional_tone = "negative" THEN 0 - 2 * thought.importance
    ELSE IF thought.emotional_tone = "frustrated" THEN 0 - 4 * thought.importance
    ELSE IF thought.emotional_tone = "curious" THEN thought.importance
    ELSE 0

(* the position clipped from above only *)
ClipPositionAbove(x) == MinOf(PosUnit, x)
ClipPosition(x) == MaxOf(0 - PosUnit, MinOf(PosUnit, x))

(* "{:.2f}" of a position change *)
Format2f(x) ==
    LET a == AbsOf(x) * 100
        q == a \div PosUnit
        r == a % PosUnit
        cents == IF 2 * r > PosUnit \/ (2 * r = PosUnit /\ q % 2 = 1) THEN q + 1 ELSE q
    IN (IF x < 0 THEN "-" ELSE "")
       \o ToString(cents \div 100) \o "."
       \o ToString((cents % 100) \div 10) \o ToString(cents % 10)

AddFactors(factors, tags) ==
    LET F[i \in 0..Len(tags)] ==
            IF i = 0 THEN factors
            ELSE LET prev == F[i - 1]
                 IN IF tags[i] \in Range(prev) THEN prev ELSE Append(prev, tags[i])
    IN F[Len(tags)]

(* a list that keeps its first ten notes and drops the new one *)
KeepOldest(notes) == Prefix(notes, 10)

(* lines 582-583: reflection_notes[-10:] *)
KeepRecent(notes) ==
    IF Len(notes) > 10 THEN SubSeq(notes, Len(notes) - 9, Len(notes)) ELSE notes

(* an update that writes its note only when the position itself moved by  *)
(* more than 0.1                                                           *)
UpdateAxisMoved(axis, thought) ==
    LET position_change == PositionChange(thought)
        old_position == axis.current_position
        new_position == ClipPosition(old_position + position_change)
        note == "Position shift due to: " \o Prefix(thought.content, 50)
                \o "... (Δ" \o Format2f(position_change) \o ")"
    IN [axis EXCEPT
           !.current_position = new_position,
           !.movement_trend = new_position - old_position,
           !.reflection_notes =
               IF AbsOf(new_position - old_position) > PosUnit \div 10
               THEN KeepRecent(Append(axis.reflection_notes, note))
               ELSE axis.reflection_notes,
           !.contributing_factors = AddFactors(axis.contributing_factors, thought.tags)]

(* lines 560-588 *)
UpdateAxis(axis, thought) ==
    LET position_change == PositionChange(thought)
        old_position == axis.current_position
        new_position == ClipPosition(old_position + position_change)
        note == "Position shift due to: " \o Prefix(thought.content, 50)
                \o "... (Δ" \o Format2f(position_change) \o ")"
    IN [axis EXCEPT
           !.current_position = new_position,
           !.movement_trend = new_position - old_position,
           !.reflection_notes =
               IF AbsOf(position_change) > PosUnit \div 10
               THEN KeepRecent(Append(axis.reflection_notes, note))
               ELSE axis.reflection_notes,
           !.contributing_factors = AddFactors(axis.contributing_factors, thought.tags)]

(* an update that also lets the trend of every other axis fall back to 0 *)
UpdateEveryTrend(axes, thought) ==
    [a \in DOMAIN axes |->
        IF a = thought.drift_axis THEN UpdateAxis(axes[a], thought)
        ELSE [axes[a] EXCEPT !.movement_trend = 0]]

(* lines 556-558: the axis of the thought is the only one touched *)
UpdateCosdAxes(axes, thought) ==
    IF thought.drift_axis \in DOMAIN axes
    THEN [axes EXCEPT ![thought.drift_axis] = UpdateAxis(@, thought)]
    ELSE axes

AxisDescription ==
    [competence_confidence |-> "How confident THOR feels about capabilities",
     user_relationship |-> "Quality and depth of relationship with user",
     autonomy_dependency |->
         "Balance between autonomous thinking and following instructions",
     curiosity_focus |-> "Balance between exploring new ideas and staying focused",
     emotional_resonance |-> "Depth of emotional understanding and response"]

(* _initialize_cosd_axes *)
DefaultAxes ==
    [a \in AxisNames |->
        [name |-> a, description |-> AxisDescription[a],
         current_position |-> 0, movement_trend |-> 0,
         reflection_notes |-> << >>, contributing_factors |-> << >>]]

(* ----------------------------------------------------------------------- *)
(* process_experience, lines 271-303: classify the experience, build the   *)
(* thought and find its connections                                        *)
(* ----------------------------------------------------------------------- *)
MakeThought(event_type, content, context, id, ts, seed, store) ==
    LET triggered_markers == DetectSkkMarkers(content, event_type)
        emotional_tone == AnalyzeEmotionalTone(content)
        tags == ExtractSemanticTags(content, context, triggered_markers, seed)
        importance == CalculateImportance(content, context, triggered_markers)
        drift_axis == AnalyzeDriftImplications(content, emotional_tone)
        thought == [id |-> id, timestamp |-> ts, content |-> content,
                    emotional_tone |-> emotional_tone, context |-> context,
                    tags |-> tags, skk_markers |-> triggered_markers,
                    connections |-> << >>, importance |-> importance,
                    drift_axis |-> drift_axis]
    IN [thought EXCEPT !.connections = FindSemanticConnections(thought, store)]

(* ----------------------------------------------------------------------- *)
(* Persistence: the three documents of save_persistent_memory              *)
(* ----------------------------------------------------------------------- *)
Digits == "0123456789"
DigitStr(n) == SubSeq(Digits, n + 1, n + 1)
DigitVal(c) == (CHOOSE i \in 1..10 : SubSeq(Digits, i, i) = c) - 1
IsDigit(c) == \E i \in 1..10 : SubSeq(Digits, i, i) = c

(* an integer in decimal, and n in exactly w digits *)
Decimal(n) == ToString(n)
Padded(n, w) ==
    LET F[i \in 0..w] ==
            IF i = 0 THEN "" ELSE F[i - 1] \o DigitStr((n \div (10 ^ (w - i))) % 10)
    IN F[w]
ParseInt(s) ==
    LET F[i \in 0..Len(s)] ==
            IF i = 0 THEN 0 ELSE F[i - 1] * 10 + DigitVal(SubSeq(s, i, i))
    IN F[Len(s)]

(* a timestamp format that keeps whole seconds only *)
IsoFormatSeconds(ts) == "T" \o Decimal(ts.sec)
(* datetime.isoformat(): seconds, and the microseconds only when not zero *)
IsoFormat(ts) ==
    "T" \o Decimal(ts.sec)
        \o (IF ts.usec = 0 THEN "" ELSE "." \o Padded(ts.usec, 6))

(* datetime.fromisoformat() *)
FromIsoFormat(s) ==
    LET dot == {i \in 1..Len(s) : SubSeq(s, i, i) = "."}
    IN IF dot = {}
       THEN [sec |-> ParseInt(SubSeq(s, 2, Len(s))), usec |-> 0]
       ELSE LET d == CHOOSE i \in dot : TRUE
            IN [sec |-> ParseInt(SubSeq(s, 2, d - 1)),
                usec |-> ParseInt(SubSeq(s, d + 1, Len(s)))]

(* yaml.dump writes a mapping with its keys sorted *)
SortedKeys(keys) ==
    LET F[i \in 0..Cardinality(keys)] ==
            IF i = 0 THEN << >>
            ELSE LET prev == F[i - 1]
                     rest == keys \ Range(prev)
                 IN Append(prev, CHOOSE k \in rest : \A x \in rest : k <= x)
    IN F[Cardinality(keys)]

MissingDoc == [state |-> "missing", entries |-> << >>, bad |-> 0]

ThoughtData(thought) == [thought EXCEPT !.timestamp = IsoFormat(thought.timestamp)]
ThoughtFromData(data) == [data EXCEPT !.timestamp = FromIsoFormat(data.timestamp)]

ThoughtsDoc(store) ==
    LET keys == SortedKeys(StoredIds(store))
    IN [state |-> "ok",
        entries |-> [i \in 1..Len(keys) |->
                        [key |-> keys[i], data |-> ThoughtData(ThoughtOf(store, keys[i]))]],
        bad |-> 0]

NarrativeData(narrative) ==
    [narrative EXCEPT !.last_updated = IsoFormat(narrative.last_updated)]
NarrativeFromData(data) ==
    [data EXCEPT !.last_updated = FromIsoFormat(data.last_updated)]

NarrativeDoc(narrative) ==
    [state |-> "ok",
     entries |-> << [key |-> "self_narrative", data |-> NarrativeData(narrative)] >>,
     bad |-> 0]

AxisSorted ==
    << "autonomy_dependency", "competence_confidence", "curiosity_focus",
       "emotional_resonance", "user_relationship" >>

AxesDoc(axes) ==
    [state |-> "ok",
     entries |-> [i \in 1..Len(AxisSorted) |->
                     [key |-> AxisSorted[i], data |-> axes[AxisSorted[i]]]],
     bad |-> 0]

(* save_persistent_memory *)
SaveDocs(store, narrative, axes) ==
    [thoughts |-> ThoughtsDoc(store),
     narrative |-> NarrativeDoc(narrative),
     axes |-> AxesDoc(axes)]

(* _load_persistent_memory: the three documents are read in turn inside    *)
(* one try block; the first exception ends the whole load and keeps what   *)
(* was assigned before it.                                                 *)
Raises(doc) == doc.state = "unparseable" \/ (doc.state = "ok" /\ doc.bad > 0)
GoodEntries(doc) ==
    IF doc.state # "ok" THEN << >>
    ELSE IF doc.bad > 0 THEN SubSeq(doc.entries, 1, doc.bad - 1)
    ELSE doc.entries

LoadThoughts(doc) ==
    LET es == GoodEntries(doc)
    IN [i \in 1..Len(es) |-> ThoughtFromData(es[i].data)]

LoadNarrative(doc, fresh) ==
    IF doc.state = "ok" /\ doc.bad = 0
    THEN NarrativeFromData(doc.entries[1].data) ELSE fresh

LoadAxes(doc, defaults) ==
    LET es == GoodEntries(doc)
    IN [a \in DOMAIN defaults \cup {es[i].key : i \in 1..Len(es)} |->
            IF \E i \in 1..Len(es) : es[i].key = a
            THEN es[CHOOSE i \in 1..Len(es) : es[i].key = a].data
            ELSE defaults[a]]

LoadPersistentMemory(d, fresh) ==
    LET r1 == Raises(d.thoughts)
        r2 == r1 \/ Raises(d.narrative)
    IN [thoughts |-> LoadThoughts(d.thoughts),
        narrative |-> IF r1 THEN fresh ELSE LoadNarrative(d.narrative, fresh),
        axes |-> IF r2 THEN DefaultAxes ELSE LoadAxes(d.axes, DefaultAxes)]

(* ----------------------------------------------------------------------- *)
(* THORMarkerManager (marker_manager.py): the marker registry, weights in  *)
(* tenths                                                                  *)
(* ----------------------------------------------------------------------- *)
Meta(k1, v1, k2, v2) == [k \in {k1, k2} |-> IF k = k1 THEN v1 ELSE v2]

CoreMarker(name, category, weight, anchor_type, meta, clock) ==
    [name |-> name, category |-> category, weight |-> weight,
     anchor_type |-> anchor_type, connections |-> << >>, usage_count |-> 0,
     last_used |-> clock, meta_properties |-> meta]

(* _initialize_core_markers *)
CoreMarkers(clock) ==
    [self_awareness |->
         CoreMarker("self_awareness", "consciousness", 10, "experience",
                    Meta("importance", "critical", "drift_axis", "autonomy_dependency"),
                    clock),
     user_interaction |->
         CoreMarker("user_interaction", "relationship", 9, "experience",
                    Meta("importance", "high", "drift_axis", "user_relationship"),
                    clock),
     learning_moment |->
         CoreMarker("learning_moment", "cognition", 10, "pattern",
                    Meta("importance", "critical", "drift_axis", "competence_confidence"),
                    clock),
     file_operation |->
         CoreMarker("file_operation", "skill", 7, "procedural",
                    Meta("domain", "file_management", "complexity", "medium"), clock),
     coding_assistance |->
         CoreMarker("coding_assistance", "skill", 8, "procedural",
                    Meta("domain", "programming", "complexity", "high"), clock),
     problem_solving |->
         CoreMarker("problem_solving", "cognition", 9, "pattern",
                    Meta("importance", "high", "drift_axis", "curiosity_focus"), clock),
     frustration_recognition |->
         CoreMarker("frustration_recognition", "emotion", 8, "experience",
                    Meta("valence", "negative", "drift_axis", "emotional_resonance"),
                    clock),
     satisfaction_achievement |->
         CoreMarker("satisfaction_achievement", "emotion", 8, "experience",
                    Meta("valence", "positive", "drift_axis", "competence_confidence"),
                    clock),
     curiosity_drive |->
         CoreMarker("curiosity_drive", "emotion", 7, "pattern",
                    Meta("valence", "positive", "drift_axis", "curiosity_focus"), clock),
     reflection_trigger |->
         CoreMarker("reflection_trigger", "meta", 9, "pattern",
                    [k \in {"triggers_introspection"} |-> "True"], clock),
     knowledge_integration |->
         CoreMarker("knowledge_integration", "meta", 8, "pattern",
                    [k \in {"builds_understanding"} |-> "True"], clock)]

(* the marker names of the runs in str order: yaml.dump writes the keys of *)
(* a document in this order and analyze_marker_patterns compares two names *)
MarkerSorted ==
    << "coding_assistance", "curiosity_drive", "file_operation",
       "frustration_recognition", "knowledge_integration", "learning_moment",
       "problem_solving", "reflection_trigger", "satisfaction_achievement",
       "self_awareness", "teamwork", "unregistered", "user_interaction" >>

(* marker1 < marker2 *)
NameBefore(marker1, marker2) ==
    \E i, j \in 1..Len(MarkerSorted) :
        MarkerSorted[i] = marker1 /\ MarkerSorted[j] = marker2 /\ i < j

(* update_marker_usage, lines 288-293: every listed name that is           *)
(* registered is counted once per occurrence                               *)
CountUsage(markers, marker_names, clock) ==
    LET F[i \in 0..Len(marker_names)] ==
            IF i = 0 THEN markers
            ELSE LET prev == F[i - 1]
                     name == marker_names[i]
                 IN IF name \in DOMAIN prev
                    THEN [prev EXCEPT ![name] =
                             [@ EXCEPT !.usage_count = @ + 1, !.last_used = clock]]
                    ELSE prev
    IN F[Len(marker_names)]

(* a defaultdict(int) in insertion order: counts[k] += 1 adds the key k at  *)
(* the end when it is new                                                  *)
Bump(counts, k) ==
    IF \E i \in 1..Len(counts) : counts[i].key = k
    THEN [i \in 1..Len(counts) |->
             IF counts[i].key = k THEN [counts[i] EXCEPT !.count = @ + 1]
             ELSE counts[i]]
    ELSE Append(counts, [key |-> k, count |-> 1])

(* counts.get(k, 0) *)
CountOf(counts, k) ==
    LET hit == {i \in 1..Len(counts) : counts[i].key = k}
    IN IF hit = {} THEN 0 ELSE counts[CHOOSE i \in hit : TRUE].count

CountPatterns(patterns, markers, marker_names) ==
    LET F[i \in 0..Len(marker_names)] ==
            IF i = 0 THEN patterns
            ELSE LET prev == F[i - 1]
                 IN IF marker_names[i] \in DOMAIN markers
                    THEN Bump(prev, marker_names[i]) ELSE prev
    IN F[Len(marker_names)]

(* lines 295-300: every pair of positions i < j of the list, both ways *)
PairsOf(marker_names) ==
    LET n == Len(marker_names)
        Row(i) == [j \in 1..(n - i) |-> << marker_names[i], marker_names[i + j] >>]
        F[i \in 0..n] == IF i = 0 THEN << >> ELSE F[i - 1] \o Row(i)
    IN F[n]

(* a matrix that counts a pair in the direction of the list only *)
CountOneWay(matrix, marker_names, co_occurring) ==
    LET pairs == PairsOf(marker_names)
        F[i \in 0..Len(pairs)] ==
            IF i = 0 THEN matrix
            ELSE Bump(F[i - 1], << pairs[i][1], pairs[i][2] >>)
    IN IF co_occurring /\ Len(marker_names) > 1 THEN F[Len(pairs)] ELSE matrix

(* the nested defaultdict, as the list of its entries [marker1][marker2]   *)
(* in the order they were first written                                    *)
CountCoOccurrence(matrix, marker_names, co_occurring) ==
    LET pairs == PairsOf(marker_names)
        F[i \in 0..Len(pairs)] ==
            IF i = 0 THEN matrix
            ELSE LET prev == F[i - 1]
                 IN Bump(Bump(prev, << pairs[i][1], pairs[i][2] >>),
                         << pairs[i][2], pairs[i][1] >>)
    IN IF co_occurring /\ Len(marker_names) > 1 THEN F[Len(pairs)] ELSE matrix

(* save_persistent_markers: three documents *)
MarkerData(marker) == [marker EXCEPT !.last_used = IsoFormat(marker.last_used)]
MarkerFromData(data) == [data EXCEPT !.last_used = FromIsoFormat(data.last_used)]

MarkersDoc(markers) ==
    LET keys == SelectSeq(MarkerSorted, LAMBDA n : n \in DOMAIN markers)
    IN [state |-> "ok",
        entries |-> [i \in 1..Len(keys) |->
                        [key |-> keys[i], data |-> MarkerData(markers[keys[i]])]],
        bad |-> 0]

(* anchor ids are "anchor_<n>_<name>" with n the number of anchors at      *)
(* creation: below ten anchors their sorted order is the creation order    *)
AnchorsDoc(anchors) ==
    [state |-> "ok",
     entries |-> [i \in 1..Len(anchors) |-> [key |-> anchors[i].id, data |-> anchors[i]]],
     bad |-> 0]

CombinationsDoc(combinations) ==
    [state |-> "ok",
     entries |-> << [key |-> "marker_combinations", data |-> combinations] >>,
     bad |-> 0]

SaveMarkerDocs(markers, anchors, combinations) ==
    [markers |-> MarkersDoc(markers),
     anchors |-> AnchorsDoc(anchors),
     combinations |-> CombinationsDoc(combinations)]

(* _load_persistent_markers: one try block around the three documents; a   *)
(* persisted marker replaces the core marker of the same name              *)
LoadMarkers(d, core) ==
    LET r1 == Raises(d.markers)
        r2 == r1 \/ Raises(d.anchors)
        r3 == r2 \/ Raises(d.combinations)
        ms == GoodEntries(d.markers)
        as == GoodEntries(d.anchors)
    IN [markers |->
            [n \in DOMAIN core \cup {ms[i].key : i \in 1..Len(ms)} |->
                IF \E i \in 1..Len(ms) : ms[i].key = n
                THEN MarkerFromData(ms[CHOOSE i \in 1..Len(ms) : ms[i].key = n].data)
                ELSE core[n]],
        anchors |-> IF r1 THEN << >> ELSE [i \in 1..Len(as) |-> as[i].data],
        combinations |->
            IF r3 \/ d.combinations.state # "ok" THEN EmptyDict
            ELSE d.combinations.entries[1].data]

(* ----------------------------------------------------------------------- *)
(* The read operations: query_semantic_memory, introspect and              *)
(* generate_self_report                                                    *)
(* ----------------------------------------------------------------------- *)
(* sorted(items, key=..., reverse=True), keys[i] being the key of          *)
(* items[i]: descending and stable                                         *)
SortedDesc(items, keys) ==
    LET n == Len(items)
        F[i \in 0..n] ==
            IF i = 0 THEN << >>
            ELSE LET prev == F[i - 1]
                     rest == (1..n) \ Range(prev)
                 IN Append(prev,
                           CHOOSE j \in rest : \A k \in rest :
                               \/ keys[j] > keys[k]
                               \/ keys[j] = keys[k] /\ j <= k)
        order == F[n]
    IN [i \in 1..n |-> items[order[i]]]

Positive(keys) == {i \in 1..Len(keys) : keys[i] > 0}

(* the elements of items at the indices in keep, in order *)
Keep(items, keep) ==
    LET F[i \in 0..Len(items)] ==
            IF i = 0 THEN << >>
            ELSE IF i \in keep THEN Append(F[i - 1], items[i]) ELSE F[i - 1]
    IN F[Len(items)]

(* the relevance score of lines 599-612, in units of 1/(10 * ImpUnit) *)
QueryScore(thought, query_lower, query_tags) ==
    LET content_lower == Lower(thought.content)
    IN ((IF Contains(content_lower, query_lower) THEN 5 ELSE 0)
        + 2 * Cardinality(Range(query_tags) \cap Range(thought.tags)))
       * thought.importance

(* query_semantic_memory: the ids of the thoughts it returns *)
QuerySemanticMemory(store, query, limit, seed) ==
    LET query_lower == Lower(query)
        query_tags == ExtractSemanticTags(query, EmptyDict, << >>, seed)
        scores == [i \in 1..Len(store) |->
                      QueryScore(store[i], query_lower, query_tags)]
        scored == Keep(store, Positive(scores))
    IN Prefix(SortedDesc(scored, Keep(scores, Positive(scores))), limit)

(* timedelta.days *)
DaysSince(ts, clock) == (Quarters(clock) - Quarters(ts)) \div QuartersPerDay

(* importance > 0.6 in floating point: 0.3 + 0.3 is 0.6, but the score     *)
(* 0.3 + 0.75 * 0.4 of markers with mean weight 0.75 is 0.6000000000000001 *)
AboveSixTenths(thought) ==
    \/ 10 * thought.importance > 6 * ImpUnit
    \/ 10 * thought.importance = 6 * ImpUnit /\ thought.skk_markers # << >>

(* Counter(items).most_common(): values by falling count, equal counts in  *)
(* the order of first occurrence                                           *)
MostCommon(items) ==
    LET firsts == Dedup(items)
        counted == [i \in 1..Len(firsts) |->
                       << firsts[i],
                          Cardinality({j \in 1..Len(items) : items[j] = firsts[i]}) >>]
    IN SortedDesc(counted, [i \in 1..Len(counted) |-> counted[i][2]])

Join(parts, sep) ==
    LET F[i \in 0..Len(parts)] ==
            IF i = 0 THEN ""
            ELSE IF i = 1 THEN parts[1]
            ELSE F[i - 1] \o sep \o parts[i]
    IN F[Len(parts)]

Flatten(lists) ==
    LET F[i \in 0..Len(lists)] == IF i = 0 THEN << >> ELSE F[i - 1] \o lists[i]
    IN F[Len(lists)]

Timestamps(list) == [i \in 1..Len(list) |-> Quarters(list[i].timestamp)]

(* introspect; topic is a set: empty for None *)
Introspect(store, topic, clock, seed) ==
    LET given == topic # {} /\ topic # {""}
        t == IF given THEN CHOOSE x \in topic : TRUE ELSE ""
        recent == SelectSeq(store, LAMBDA th :
                      AboveSixTenths(th) /\ DaysSince(th.timestamp, clock) < 30)
        relevant_thoughts ==
            IF given THEN QuerySemanticMemory(store, t, 10, seed)
            ELSE Prefix(SortedDesc(recent, Timestamps(recent)), 10)
        n == Len(relevant_thoughts)
        dominant_emotion ==
            MostCommon([i \in 1..n |-> relevant_thoughts[i].emotional_tone])[1]
        top_themes ==
            Prefix(MostCommon(Flatten([i \in 1..n |-> relevant_thoughts[i].tags])), 3)
        main_drift == MostCommon([i \in 1..n |-> relevant_thoughts[i].drift_axis])[1]
        recent_thought ==
            SortedDesc(relevant_thoughts, Timestamps(relevant_thoughts))[1]
    IN IF n = 0
       THEN IF given
            THEN "Ich habe noch keine tieferen Gedanken zu '" \o t \o "' entwickelt."
            ELSE "Meine Gedankenwelt ist noch im Entstehen."
       ELSE Join(<< IF given THEN "Meine Reflexion zu '" \o t \o "':"
                    ELSE "Meine aktuellen Gedanken und Muster:",
                    "\nEmotional dominiert " \o dominant_emotion[1] \o " bei "
                        \o ToString(dominant_emotion[2]) \o " von " \o ToString(n)
                        \o " Gedanken.",
                    "Hauptthemen: "
                        \o Join([i \in 1..Len(top_themes) |-> top_themes[i][1]], ", "),
                    "Bewusstseinsfokus liegt auf: " \o ReplaceAll(main_drift[1], "_", " "),
                    "\nNeueste Erkenntnis: " \o recent_thought.content >>,
                 "\n")

PositionDesc(position) ==
    IF 10 * AbsOf(position) < 3 * PosUnit THEN "ausgeglichen"
    ELSE IF 10 * position > 6 * PosUnit THEN "stark positiv"
    ELSE IF 10 * position < 0 - 6 * PosUnit THEN "stark negativ"
    ELSE IF position > 0 THEN "leicht positiv" ELSE "leicht negativ"

TrendDesc(trend) ==
    IF 10 * AbsOf(trend) < PosUnit THEN "stabil"
    ELSE IF trend > 0 THEN "verbessernd" ELSE "verschlechternd"

(* "{:.1%}" of a confidence in tenths *)
Percent(conf) == ToString(conf * 10) \o ".0%"

(* generate_self_report, as the parts of the report, each line without its *)
(* leading bullet.  The capabilities                                       *)
(* section lists the three highest confidences; equal confidences keep the *)
(* dict's order, which the model does not record, so the part holds every  *)
(* capability fewer than three others exceed.                              *)
GenerateSelfReport(store, narrative, axes, clock) ==
    LET caps == narrative.capabilities
        top == {c \in DOMAIN caps :
                   Cardinality({d \in DOMAIN caps : caps[d] > caps[c]}) < 3}
        recent_important ==
            SelectSeq(store, LAMBDA th :
                10 * th.importance > 7 * ImpUnit /\ DaysSince(th.timestamp, clock) < 7)
        shown == Prefix(SortedDesc(recent_important,
                                   [i \in 1..Len(recent_important) |->
                                       recent_important[i].importance]), 3)
    IN [capabilities |->
            {c \o ": " \o Percent(caps[c]) \o " Vertrauen" : c \in top},
        axes |->
            [a \in DOMAIN axes |->
                axes[a].description \o ": "
                    \o PositionDesc(axes[a].current_position)
                    \o " (" \o TrendDesc(axes[a].movement_trend) \o ")"],
        insights |->
            [i \in 1..Len(shown) |-> Prefix(shown[i].content, 80) \o "..."],
        insight_count |-> Len(recent_important),
        growth_areas |-> Join(Prefix(narrative.growth_areas, 3), ", ")]

(* ----------------------------------------------------------------------- *)
(* The marker registry: anchors, combinations, the CSV import and the      *)
(* read views                                                              *)
(* ----------------------------------------------------------------------- *)
(* every listed id, registered or not *)
AllIds(markers, marker_ids) == marker_ids

(* `mid in self.semantic_markers`: the listed ids that are registered, in  *)
(* the order and as often as they are listed                               *)
RegisteredIds(markers, marker_ids) ==
    SelectSeq(marker_ids, LAMBDA mid : mid \in DOMAIN markers)

(* self.semantic_markers[mid] of an id that is not registered: KeyError *)
LookupFails(markers, ids) == \E i \in 1..Len(ids) : ids[i] \notin DOMAIN markers

(* f"anchor_{len(self.knowledge_anchors)}_{name.lower().replace(' ', '_')}" *)
AnchorId(anchors, name) ==
    "anchor_" \o Decimal(Len(anchors)) \o "_" \o ReplaceAll(Lower(name), " ", "_")

(* min(1.0, total_weight / len(marker_ids)) as the fraction num / den, the *)
(* weights being in tenths                                                 *)
AnchorStrength(markers, marker_ids) ==
    LET ids == RegisteredIds(markers, marker_ids)
        F[i \in 0..Len(ids)] ==
            IF i = 0 THEN 0 ELSE F[i - 1] + markers[ids[i]].weight
    IN IF marker_ids = << >> THEN [num |-> 0, den |-> 1]
       ELSE [num |-> MinOf(F[Len(ids)], 10 * Len(marker_ids)),
             den |-> 10 * Len(marker_ids)]

KnowledgeAnchor(anchors, markers, name, description, marker_ids, knowledge_type) ==
    [id |-> AnchorId(anchors, name), name |-> name, description |-> description,
     marker_ids |-> marker_ids, strength |-> AnchorStrength(markers, marker_ids),
     knowledge_type |-> knowledge_type, connections |-> << >>,
     creation_context |-> EmptyDict]

(* lines 330-334: the id is appended to a registered marker that does not  *)
(* hold it yet                                                             *)
LinkAnchor(markers, marker_ids, anchor_id) ==
    LET ids == RegisteredIds(markers, marker_ids)
        F[i \in 0..Len(ids)] ==
            IF i = 0 THEN markers
            ELSE LET prev == F[i - 1]
                 IN IF anchor_id \in Range(prev[ids[i]].connections) THEN prev
                    ELSE [prev EXCEPT ![ids[i]].connections = Append(@, anchor_id)]
    IN F[Len(ids)]

(* import_markers_from_csv: a row of csv.DictReader is a dict of strings.  *)
(* float() of a weight "d.d" in tenths, int() of a count                   *)
IsCount(text) == text # "" /\ \A i \in 1..Len(text) : IsDigit(SubSeq(text, i, i))
IsWeight(text) ==
    /\ Len(text) = 3
    /\ IsDigit(SubSeq(text, 1, 1))
    /\ SubSeq(text, 2, 2) = "."
    /\ IsDigit(SubSeq(text, 3, 3))
ParseWeight(text) == 10 * DigitVal(SubSeq(text, 1, 1)) + DigitVal(SubSeq(text, 3, 3))

(* row['name'], float(...), int(...) or fromisoformat(...) raises *)
RowRaises(row) ==
    \/ "name" \notin DOMAIN row
    \/ "weight" \in DOMAIN row /\ ~IsWeight(row.weight)
    \/ "usage_count" \in DOMAIN row /\ ~IsCount(row.usage_count)
    \/ "last_used" \in DOMAIN row /\ SubSeq(row.last_used, 1, 1) # "T"

(* lines 447-456 *)
MarkerOfRow(row, clock) ==
    [name |-> row.name,
     category |-> IF "category" \in DOMAIN row THEN row.category ELSE "imported",
     weight |-> IF "weight" \in DOMAIN row THEN ParseWeight(row.weight) ELSE 5,
     anchor_type |->
         IF "anchor_type" \in DOMAIN row THEN row.anchor_type ELSE "knowledge",
     connections |-> << >>,
     usage_count |->
         IF "usage_count" \in DOMAIN row THEN ParseInt(row.usage_count) ELSE 0,
     last_used |->
         IF "last_used" \in DOMAIN row THEN FromIsoFormat(row.last_used) ELSE clock,
     meta_properties |-> EmptyDict]

(* lines 441-464: the rows before the first one that raises are imported,  *)
(* each replacing the marker of its name                                   *)
ImportMarkers(markers, rows, clock) ==
    LET bad == {i \in 1..Len(rows) : RowRaises(rows[i])}
        n == IF bad = {} THEN Len(rows)
             ELSE (CHOOSE i \in bad : \A j \in bad : i <= j) - 1
        F[i \in 0..n] ==
            IF i = 0 THEN markers
            ELSE LET prev == F[i - 1]
                 IN DictSet(prev, rows[i].name, MarkerOfRow(rows[i], clock))
    IN F[n]

(* sorted(self.usage_patterns.items(), key=count, reverse=True)[:10][:5] *)
TopMarkers(patterns) ==
    Prefix(SortedDesc(patterns, [i \in 1..Len(patterns) |-> patterns[i].count]), 5)

(* lines 364-369 and 379: the entries [marker1][marker2] with marker1 <    *)
(* marker2, in the order of the nested dicts, sorted by count              *)
CoOccurPairs(matrix) ==
    LET outer == Dedup([i \in 1..Len(matrix) |-> matrix[i].key[1]])
        nested == Flatten([o \in 1..Len(outer) |->
                              SelectSeq(matrix, LAMBDA e : e.key[1] = outer[o])])
        pairs == SelectSeq(nested, LAMBDA e : NameBefore(e.key[1], e.key[2]))
    IN Prefix(SortedDesc(pairs, [i \in 1..Len(pairs) |-> pairs[i].count]), 5)

(* Counter(marker.category for marker in ...): a dict, compared by content *)
CategoryDistribution(markers) ==
    [c \in {markers[n].category : n \in DOMAIN markers} |->
        Cardinality({n \in DOMAIN markers : markers[n].category = c})]

(* marker.last_used >= datetime.now() - timedelta(days=days) *)
RecentMarkers(markers, days, clock) ==
    {n \in DOMAIN markers :
        Quarters(markers[n].last_used) >= Quarters(clock) - days * QuartersPerDay}

TotalUsage(patterns) ==
    LET F[i \in 0..Len(patterns)] ==
            IF i = 0 THEN 0 ELSE F[i - 1] + patterns[i].count
    IN F[Len(patterns)]

(* the names the module binds at import, lines 6-13 *)
ModuleNames ==
    {"csv", "yaml", "defaultdict", "Counter", "Path", "Dict", "List", "Any", "Set",
     "dataclass", "asdict", "datetime", "logger"}

(* analyze_marker_patterns(days): line 354 reads the global name timedelta, *)
(* which the module never binds, and raises NameError                      *)
AnalyzeMarkerPatterns(markers, anchors, patterns, matrix, days, clock) ==
    IF "timedelta" \notin ModuleNames THEN "NameError"
    ELSE [total_markers |-> Cardinality(DOMAIN markers),
          active_markers |-> Cardinality(RecentMarkers(markers, days, clock)),
          total_usage |-> TotalUsage(patterns),
          top_markers |-> TopMarkers(patterns),
          top_co_occurrences |-> CoOccurPairs(matrix),
          category_distribution |-> CategoryDistribution(markers),
          knowledge_anchors |-> Len(anchors)]

(* get_marker_insights(marker_name); "ValueError" when list.index finds no *)
(* item (marker_name, usage_count) among the usage counters                *)
GetMarkerInsights(markers, anchors, patterns, matrix, marker_name) ==
    LET marker == markers[marker_name]
        ranked == SortedDesc(patterns, [i \in 1..Len(patterns) |-> patterns[i].count])
        item == [key |-> marker_name, count |-> marker.usage_count]
        partners == SelectSeq(matrix, LAMBDA e : e.key[1] = marker_name)
        connected == SelectSeq(anchors, LAMBDA a : marker_name \in Range(a.marker_ids))
    IN IF marker_name \notin DOMAIN markers THEN [error |-> marker_name]
       ELSE IF item \notin Range(ranked) THEN "ValueError"
       ELSE [marker |-> marker,
             usage_rank |-> CHOOSE i \in 1..Len(ranked) : ranked[i] = item,
             co_occurring_markers |->
                 Prefix(SortedDesc(partners,
                                   [i \in 1..Len(partners) |-> partners[i].count]), 5),
             connected_anchors |->
                 [i \in 1..Len(connected) |->
                     [name |-> connected[i].name, strength |-> connected[i].strength]],
             category_peers |->
                 {n \in DOMAIN markers :
                     markers[n].category = marker.category /\ n # marker_name}]

(* ----------------------------------------------------------------------- *)
(* State                                                                   *)
(* ----------------------------------------------------------------------- *)
VARIABLES
    thoughts,        \* MINDSystem.thoughts, in dict insertion order
    self_narrative,  \* MINDSystem.self_narrative
    cosd_axes,       \* MINDSystem.cosd_axes
    semantic_graph,  \* MINDSystem.semantic_graph
    disk,            \* thoughts.yaml, self_narrative.yaml, cosd_axes.yaml
    now,             \* the wall clock, datetime.now()
    hash_seed,       \* the process's string hash seed
    used_ids,        \* the uuids drawn so far
    stack,           \* per task: its chain of process_experience frames
    running,         \* the task the event loop is running, 0 when none
    calls,           \* top-level calls started
    instance,        \* counts the MINDSystem objects constructed
    boot,            \* per document: what the constructor found on disk
    fresh,           \* no experience processed since construction
    save_log,        \* store size at each periodic save
    reflected,       \* ids of the thoughts that spawned a reflection
    born,            \* ids in order of creation
    returned,        \* per task: the value its last top-level call returned
    answer,          \* what the last read operation returned
    semantic_markers,      \* THORMarkerManager.semantic_markers
    knowledge_anchors,     \* THORMarkerManager.knowledge_anchors
    marker_combinations,   \* THORMarkerManager.marker_combinations
    usage_patterns,        \* THORMarkerManager.usage_patterns
    co_occurrence_matrix,  \* THORMarkerManager.co_occurrence_matrix
    marker_disk,           \* the three documents under markers/
    previous               \* the analysis the call before returned, when the
                           \* last two calls both were analyze_marker_patterns

vars == << thoughts, self_narrative, cosd_axes, semantic_graph, disk, now,
           hash_seed, used_ids, stack, running, calls, instance, boot, fresh,
           save_log, reflected, born, returned, answer, semantic_markers,
           knowledge_anchors, marker_combinations, usage_patterns,
           co_occurrence_matrix, marker_disk, previous >>

Tasks == {1, 2}
HashSeeds == {1, 2}

mind == << thoughts, self_narrative, cosd_axes, semantic_graph >>
log == << save_log, reflected, born, returned >>
history == << log, previous >>
process == << instance, boot, hash_seed >>
registry == << semantic_markers, knowledge_anchors, marker_combinations,
               usage_patterns, co_occurrence_matrix, marker_disk >>

FreshNarrative(clock) ==
    [capabilities |-> EmptyDict, preferences |-> EmptyDict,
     growth_areas |-> << >>, last_updated |-> clock]

EmptyGraph == [nodes |-> {}, edges |-> {}]
NoDisk == [thoughts |-> MissingDoc, narrative |-> MissingDoc, axes |-> MissingDoc]
BootOf(d) == [k \in {"thoughts", "narrative", "axes"} |->
                 IF d[k].state = "missing" THEN "missing"
                 ELSE IF Raises(d[k]) THEN "corrupt" ELSE "ok"]

StartClock == [sec |-> 100, usec |-> 0]
NoAnswer == [op |-> "none", result |-> << >>]
NoMarkerDisk ==
    [markers |-> MissingDoc, anchors |-> MissingDoc, combinations |-> MissingDoc]
EmptyCounts == << >>

(* MINDSystem.__init__ and THORMarkerManager.__init__ on an empty storage  *)
(* directory                                                               *)
Init ==
    /\ thoughts = << >>
    /\ self_narrative = FreshNarrative(StartClock)
    /\ cosd_axes = DefaultAxes
    /\ semantic_graph = EmptyGraph
    /\ disk = NoDisk
    /\ now = StartClock
    /\ hash_seed \in HashSeeds
    /\ used_ids = {}
    /\ stack = [t \in Tasks |-> << >>]
    /\ running = 0
    /\ calls = 0
    /\ instance = 1
    /\ boot = BootOf(NoDisk)
    /\ fresh = TRUE
    /\ save_log = << >>
    /\ reflected = {}
    /\ born = << >>
    /\ returned = [t \in Tasks |-> 0]
    /\ answer = NoAnswer
    /\ semantic_markers = CoreMarkers(StartClock)
    /\ knowledge_anchors = << >>
    /\ marker_combinations = EmptyDict
    /\ usage_patterns = EmptyCounts
    /\ co_occurrence_matrix = EmptyCounts
    /\ marker_disk = NoMarkerDisk
    /\ previous = NoAnswer

(* ----------------------------------------------------------------------- *)
(* The event loop: a task keeps the loop until an await suspends it.  No   *)
(* coroutine awaited inside process_experience awaits a pending future.    *)
(* ----------------------------------------------------------------------- *)
(* an event loop on which the save yields to other tasks *)
SaveSuspends(callee) == callee = "save_persistent_memory"
AwaitSuspends(callee) == FALSE

CanRun(t) == running = t \/ (running = 0 /\ stack[t] # << >>)
After(t, callee) == IF AwaitSuspends(callee) THEN 0 ELSE t

Top(t) == stack[t][Len(stack[t])]
SetTop(t, f) == [stack EXCEPT ![t] = [@ EXCEPT ![Len(@)] = f]]
OrEmpty(context) == IF context = {} THEN EmptyDict ELSE CHOOSE d \in context : TRUE

Frame(event_type, content, context) ==
    [pc |-> "start", event_type |-> event_type, content |-> content,
     context |-> context, tid |-> 0]

(* a task calls process_experience(event_type, content, context), some    *)
(* time after the last call                                                *)
Begin(t, experiences, clock_steps) ==
    /\ running = 0
    /\ stack[t] = << >>
    /\ \E e \in experiences :
          stack' = [stack EXCEPT ![t] =
                       << Frame(e.event_type, e.content, OrEmpty(e.context)) >>]
    /\ \E q \in clock_steps : now' = AddQuarters(now, q)
    /\ running' = t
    /\ calls' = calls + 1
    /\ UNCHANGED << mind, disk, used_ids, history, process, fresh, answer, registry >>

(* uuid.uuid4(): an id not drawn before *)
NewIds(any) ==
    LET k == Cardinality(used_ids)
        free == (1..(k + 2)) \ used_ids
    IN IF any THEN free ELSE {CHOOSE i \in free : \A j \in free : i <= j}

(* a context that is not a dict is written [__class__ |-> its type]; every  *)
(* other context is a dict.  context.get of a str or a list raises          *)
(* AttributeError at line 389.                                              *)
ContextRaises(context) == "__class__" \in DOMAIN context

(* what a caller gets instead of a thought id when the call raises *)
AttributeError == 0 - 1

(* lines 271-309: the thought is built, connected, stored and added to the *)
(* graph.  datetime.now() is later than every earlier reading.  When the   *)
(* context has no get, the exception leaves process_experience and the     *)
(* call has stored nothing.                                                *)
Create(t, any_id) ==
    /\ CanRun(t)
    /\ Top(t).pc = "start"
    /\ IF ContextRaises(Top(t).context)
       THEN /\ stack' = [stack EXCEPT ![t] = << >>]
            /\ running' = 0
            /\ returned' = [returned EXCEPT ![t] = AttributeError]
            /\ UNCHANGED << thoughts, semantic_graph, now, used_ids, born, fresh >>
       ELSE /\ \E id \in NewIds(any_id) :
                  LET f == Top(t)
                      ts == AddQuarters(now, 1)
                      thought == MakeThought(f.event_type, f.content, f.context,
                                             id, ts, hash_seed, thoughts)
                  IN /\ now' = ts
                     /\ used_ids' = used_ids \cup {id}
                     /\ thoughts' = StoreThought(thoughts, thought)
                     /\ semantic_graph' = UpdateSemanticGraph(semantic_graph, thought)
                     /\ born' = Append(born, id)
                     /\ stack' = SetTop(t, [f EXCEPT !.pc = "reflect", !.tid = id])
            /\ running' = After(t, "_find_semantic_connections")
            /\ fresh' = FALSE
            /\ UNCHANGED returned
    /\ UNCHANGED << self_narrative, cosd_axes, disk, calls, process,
                    save_log, reflected, answer, registry, previous >>

(* a call that updates the narrative and the axes for its thought before  *)
(* it starts the reflection on it                                          *)
ReflectAfterUpdates(t) ==
    /\ CanRun(t)
    /\ Top(t).pc = "reflect"
    /\ LET f == Top(t)
           thought == ThoughtOf(thoughts, f.tid)
       IN IF ShouldReflect(thought.importance, thought.skk_markers)
             /\ Len(stack[t]) < MaxDepth
          THEN /\ stack' = [stack EXCEPT ![t] =
                     Append([@ EXCEPT ![Len(@)] = [f EXCEPT !.pc = "save"]],
                            Frame("reflection",
                                  GenerateReflection(thought, thoughts),
                                  ReflectionContext(thought)))]
               /\ reflected' = reflected \cup {f.tid}
               /\ self_narrative' = UpdateSelfNarrative(self_narrative, thought, now)
               /\ cosd_axes' = UpdateCosdAxes(cosd_axes, thought)
          ELSE /\ stack' = SetTop(t, [f EXCEPT !.pc = "narrative"])
               /\ UNCHANGED << reflected, self_narrative, cosd_axes >>
    /\ running' = t
    /\ UNCHANGED << thoughts, semantic_graph, disk, now, used_ids, calls, process,
                    fresh, save_log, born, returned, answer, registry, previous >>

(* lines 311-313 and _trigger_reflection: the reflection re-enters         *)
(* process_experience; the caller's frame waits for it at line 313.        *)
Reflect(t) ==
    /\ CanRun(t)
    /\ Top(t).pc = "reflect"
    /\ LET f == Top(t)
           thought == ThoughtOf(thoughts, f.tid)
       IN IF ShouldReflect(thought.importance, thought.skk_markers)
          THEN IF Len(stack[t]) < MaxDepth
               THEN /\ stack' = [stack EXCEPT ![t] =
                          Append([@ EXCEPT ![Len(@)] = [f EXCEPT !.pc = "narrative"]],
                                 Frame("reflection",
                                       GenerateReflection(thought, thoughts),
                                       ReflectionContext(thought)))]
                    /\ reflected' = reflected \cup {f.tid}
               ELSE /\ stack' = SetTop(t, [f EXCEPT !.pc = "overflow"])
                    /\ reflected' = reflected
          ELSE /\ stack' = SetTop(t, [f EXCEPT !.pc = "narrative"])
               /\ reflected' = reflected
    /\ running' = t
    /\ UNCHANGED << mind, disk, now, used_ids, calls, process, fresh,
                    save_log, born, returned, answer, registry, previous >>

(* line 316 *)
Narrative(t) ==
    /\ CanRun(t)
    /\ Top(t).pc = "narrative"
    /\ self_narrative' =
          UpdateSelfNarrative(self_narrative, ThoughtOf(thoughts, Top(t).tid), now)
    /\ stack' = SetTop(t, [Top(t) EXCEPT !.pc = "axes"])
    /\ running' = After(t, "_update_self_narrative")
    /\ UNCHANGED << thoughts, cosd_axes, semantic_graph, disk, now, used_ids,
                    calls, process, fresh, history, answer, registry >>

(* line 319 *)
Axes(t) ==
    /\ CanRun(t)
    /\ Top(t).pc = "axes"
    /\ cosd_axes' = UpdateCosdAxes(cosd_axes, ThoughtOf(thoughts, Top(t).tid))
    /\ stack' = SetTop(t, [Top(t) EXCEPT !.pc = "save"])
    /\ running' = After(t, "_update_cosd_axes")
    /\ UNCHANGED << thoughts, self_narrative, semantic_graph, disk, now, used_ids,
                    calls, process, fresh, history, answer, registry >>

(* lines 321-323 *)
SaveDue(store) == Len(store) % 10 = 0

Save(t) ==
    /\ CanRun(t)
    /\ Top(t).pc = "save"
    /\ IF SaveDue(thoughts)
       THEN /\ disk' = SaveDocs(thoughts, self_narrative, cosd_axes)
            /\ save_log' = Append(save_log, Len(thoughts))
       ELSE UNCHANGED << disk, save_log >>
    /\ stack' = SetTop(t, [Top(t) EXCEPT !.pc = "return"])
    /\ running' = After(t, "save_persistent_memory")
    /\ UNCHANGED << mind, now, used_ids, calls, process, fresh,
                    reflected, born, returned, answer, registry, previous >>

(* a return that hands the caller the id of the thought stored last *)
ReturnNewest(t) ==
    /\ CanRun(t)
    /\ Top(t).pc = "return"
    /\ stack' = [stack EXCEPT ![t] = SubSeq(@, 1, Len(@) - 1)]
    /\ IF Len(stack[t]) = 1
       THEN /\ running' = 0
            /\ returned' = [returned EXCEPT ![t] = thoughts[Len(thoughts)].id]
       ELSE /\ running' = t
            /\ UNCHANGED returned
    /\ UNCHANGED << mind, disk, now, used_ids, calls, process, fresh,
                    save_log, reflected, born, answer, registry, previous >>

(* line 327: the frame returns its thought's id; a reflection returns into *)
(* the frame that spawned it, a top-level call to its caller.              *)
Return(t) ==
    /\ CanRun(t)
    /\ Top(t).pc = "return"
    /\ stack' = [stack EXCEPT ![t] = SubSeq(@, 1, Len(@) - 1)]
    /\ IF Len(stack[t]) = 1
       THEN /\ running' = 0
            /\ returned' = [returned EXCEPT ![t] = Top(t).tid]
       ELSE /\ running' = t
            /\ UNCHANGED returned
    /\ UNCHANGED << mind, disk, now, used_ids, calls, process, fresh,
                    save_log, reflected, born, answer, registry, previous >>

Step(t, any_id) ==
    \/ Create(t, any_id)
    \/ Reflect(t)
    \/ Narrative(t)
    \/ Axes(t)
    \/ Save(t)
    \/ Return(t)

(* ----------------------------------------------------------------------- *)
(* The experiences the callers send                                        *)
(* ----------------------------------------------------------------------- *)
Experience(event_type, content, context) ==
    [event_type |-> event_type, content |-> content, context |-> context]

NoContext == {}
Flags(keys) == {[k \in keys |-> "True"]}

Frustrated == Experience("user", "Das funktioniert immer noch nicht", {EmptyDict})
AtThreshold == Experience("learning", "ok", NoContext)
Cascading == Experience("system", "reflection", NoContext)
Saturated ==
    Experience("success", "Task completed, super",
               {[k \in {"user_correction", "first_time", "error_recovery", "task_type"} |->
                    IF k = "task_type" THEN "copy" ELSE "True"]})

Experiences == {Frustrated, AtThreshold, Cascading, Saturated}

ClockSteps == {0, QuartersPerDay}

Next ==
    \/ /\ calls < MaxCalls
       /\ Begin(1, Experiences, ClockSteps)
    \/ Step(1, FALSE)

Spec == Init /\ [][Next]_vars

(* ----------------------------------------------------------------------- *)
(* Long runs: one task, a failure that is corrected and recovered from     *)
(* (importance 1, spawns one reflection) and a plain experience, until the *)
(* store holds MaxLongThoughts thoughts.                                   *)
(* ----------------------------------------------------------------------- *)
HardFailure ==
    Experience("error", "Das funktioniert immer noch nicht",
               Flags({"user_correction", "error_recovery"}))

LongExperiences == {HardFailure, AtThreshold}

InitLong == Init /\ hash_seed = 1

NextLong ==
    \/ /\ Len(thoughts) < MaxLongThoughts
       /\ Begin(1, LongExperiences, {0})
    \/ Step(1, FALSE)

SpecLong == InitLong /\ [][NextLong]_vars

(* Fairness: a coroutine that can take its next step takes it.  CanStep is *)
(* the enabling condition of Step: a frame is on the stack, the task has   *)
(* the loop, and the recursion limit has not stopped it.                   *)
CanStep(t) == CanRun(t) /\ Top(t).pc # "overflow"
FairSpec == Spec /\ ([]<>(~CanStep(1)) \/ []<><<Step(1, FALSE)>>_vars)

Quiescent == \A t \in Tasks : stack[t] = << >>

(* ----------------------------------------------------------------------- *)
(* Operations the host runs between two calls of process_experience        *)
(* ----------------------------------------------------------------------- *)
control == << now, used_ids, stack, running, calls, fresh >>

(* a read operation that takes the thoughts it iterates out of the store *)
DrainedValues(store) == << >>

(* self.thoughts.values(): the read operations iterate a view of the store *)
(* and bind no attribute of the instance; the store after the iteration    *)
Values(store) == store

(* query_semantic_memory(query, limit) *)
CallQuery(queries, limits) ==
    /\ running = 0
    /\ \E query \in queries, limit \in limits :
          LET found == QuerySemanticMemory(thoughts, query, limit, hash_seed)
          IN answer' = [op |-> "query_semantic_memory",
                        result |-> [i \in 1..Len(found) |-> found[i].id]]
    /\ thoughts' = Values(thoughts)
    /\ UNCHANGED << self_narrative, cosd_axes, semantic_graph, disk, control,
                    process, history, registry >>

(* introspect(topic) *)
CallIntrospect(topics) ==
    /\ running = 0
    /\ \E topic \in topics :
          answer' = [op |-> "introspect",
                     result |-> Introspect(thoughts, topic, now, hash_seed)]
    /\ thoughts' = Values(thoughts)
    /\ UNCHANGED << self_narrative, cosd_axes, semantic_graph, disk, control,
                    process, history, registry >>

(* generate_self_report() *)
CallSelfReport ==
    /\ running = 0
    /\ answer' = [op |-> "generate_self_report",
                  result |-> GenerateSelfReport(thoughts, self_narrative,
                                                cosd_axes, now)]
    /\ thoughts' = Values(thoughts)
    /\ UNCHANGED << self_narrative, cosd_axes, semantic_graph, disk, control,
                    process, history, registry >>

(* save_persistent_memory() called directly *)
CallSave ==
    /\ running = 0
    /\ disk' = SaveDocs(thoughts, self_narrative, cosd_axes)
    /\ UNCHANGED << mind, control, process, history, answer, registry >>

(* update_marker_usage(marker_names, co_occurring); it reads the clock *)
UpdateMarkerUsage(name_lists, flags) ==
    /\ running = 0
    /\ \A n \in DOMAIN semantic_markers : semantic_markers[n].usage_count < MaxUsage
    /\ \E marker_names \in name_lists, co_occurring \in flags :
          LET clock == AddQuarters(now, 1)
          IN /\ semantic_markers' = CountUsage(semantic_markers, marker_names, clock)
             /\ usage_patterns' =
                   CountPatterns(usage_patterns, semantic_markers, marker_names)
             /\ co_occurrence_matrix' =
                   CountCoOccurrence(co_occurrence_matrix, marker_names, co_occurring)
             /\ now' = clock
             /\ answer' = [op |-> "update_marker_usage", result |-> "None",
                           args |-> << marker_names, co_occurring >>]
    /\ UNCHANGED << mind, disk, used_ids, stack, running, calls, fresh, process,
                    log, knowledge_anchors, marker_combinations, marker_disk >>
    /\ previous' = NoAnswer

(* save_persistent_markers() *)
SaveMarkers ==
    /\ running = 0
    /\ marker_disk' = SaveMarkerDocs(semantic_markers, knowledge_anchors,
                                     marker_combinations)
    /\ UNCHANGED << mind, disk, control, process, history, answer,
                    semantic_markers, knowledge_anchors, marker_combinations,
                    usage_patterns, co_occurrence_matrix >>

(* create_knowledge_anchor(name, description, marker_ids, knowledge_type) *)
CreateKnowledgeAnchor(names, id_lists) ==
    /\ running = 0
    /\ Len(knowledge_anchors) < MaxAnchors
    /\ \E name \in names, marker_ids \in id_lists :
          LET anchor == KnowledgeAnchor(knowledge_anchors, semantic_markers, name,
                                        "", marker_ids, "procedural")
          IN IF LookupFails(semantic_markers,
                            RegisteredIds(semantic_markers, marker_ids))
             THEN /\ answer' = [op |-> "create_knowledge_anchor",
                                result |-> "KeyError"]
                  /\ UNCHANGED << semantic_markers, knowledge_anchors >>
             ELSE /\ knowledge_anchors' = Append(knowledge_anchors, anchor)
                  /\ semantic_markers' =
                        LinkAnchor(semantic_markers, marker_ids, anchor.id)
                  /\ answer' = [op |-> "create_knowledge_anchor",
                                result |-> anchor.id]
    /\ UNCHANGED << mind, disk, control, process, log, marker_combinations,
                    usage_patterns, co_occurrence_matrix, marker_disk >>
    /\ previous' = NoAnswer

(* create_marker_combination(name, marker_names) *)
CreateMarkerCombination(names, name_lists) ==
    /\ running = 0
    /\ \E name \in names, marker_names \in name_lists :
          marker_combinations' =
              DictSet(marker_combinations, name,
                      RegisteredIds(semantic_markers, marker_names))
    /\ answer' = [op |-> "create_marker_combination", result |-> "None"]
    /\ UNCHANGED << mind, disk, control, process, log, semantic_markers,
                    knowledge_anchors, usage_patterns, co_occurrence_matrix,
                    marker_disk >>
    /\ previous' = NoAnswer

(* import_markers_from_csv(filepath), the file holding the rows *)
ImportMarkersFromCsv(files) ==
    /\ running = 0
    /\ \E rows \in files :
          semantic_markers' = ImportMarkers(semantic_markers, rows, now)
    /\ answer' = [op |-> "import_markers_from_csv", result |-> "None"]
    /\ UNCHANGED << mind, disk, control, process, log, knowledge_anchors,
                    marker_combinations, usage_patterns, co_occurrence_matrix,
                    marker_disk >>
    /\ previous' = NoAnswer

(* the clock readings that moved the clock: quarters of a second and days *)
Ticks ==
    LET elapsed == Quarters(now) - Quarters(StartClock)
    IN (elapsed % QuartersPerDay) + (elapsed \div QuartersPerDay)

(* analyze_marker_patterns(days), called `wait` after the previous call *)
CallAnalyze(windows, waits) ==
    /\ running = 0
    /\ \E days \in windows, wait \in waits :
          LET clock == AddQuarters(now, wait)
          IN /\ wait = 0 \/ Ticks < MaxTicks
             /\ now' = clock
             /\ answer' =
                   [op |-> "analyze_marker_patterns",
                    result |-> << days,
                                  AnalyzeMarkerPatterns(semantic_markers,
                                      knowledge_anchors, usage_patterns,
                                      co_occurrence_matrix, days, clock) >>]
    /\ UNCHANGED << mind, disk, used_ids, stack, running, calls, fresh, process,
                    log, registry >>
    /\ previous' = (IF answer.op = "analyze_marker_patterns" THEN answer ELSE NoAnswer)

(* get_marker_insights(marker_name) *)
CallInsights(names) ==
    /\ running = 0
    /\ \E marker_name \in names :
          answer' = [op |-> "get_marker_insights",
                     result |-> GetMarkerInsights(semantic_markers, knowledge_anchors,
                                                  usage_patterns, co_occurrence_matrix,
                                                  marker_name)]
    /\ UNCHANGED << mind, disk, control, process, log, registry >>
    /\ previous' = NoAnswer

(* ----------------------------------------------------------------------- *)
(* The storage directory and the process.  The documents are written in    *)
(* place: a document can be lost, left unparseable, or left with an entry  *)
(* that lacks a field, every entry before it being intact.                 *)
(* ----------------------------------------------------------------------- *)
Damaged(doc) ==
    {MissingDoc, [state |-> "unparseable", entries |-> << >>, bad |-> 0]}
        \cup {[doc EXCEPT !.bad = b] : b \in 1..Len(doc.entries)}

Intact(doc) == doc.state = "ok" /\ doc.bad = 0

(* one of the documents is damaged while the others are as they were left *)
Corrupt(kinds) ==
    /\ running = 0
    /\ \A k \in DOMAIN disk : disk[k].state = "missing" \/ Intact(disk[k])
    /\ \E k \in kinds :
          /\ Intact(disk[k])
          /\ \E d \in Damaged(disk[k]) : disk' = [disk EXCEPT ![k] = d]
    /\ UNCHANGED << mind, control, process, history, answer, registry >>

(* the agent is stopped and started again: THORAgent.__init__ constructs a *)
(* MINDSystem and a THORMarkerManager from the storage directory           *)
Restart(seeds) ==
    /\ running = 0
    /\ Quiescent
    /\ LET m == LoadPersistentMemory(disk, FreshNarrative(now))
           r == LoadMarkers(marker_disk, CoreMarkers(now))
       IN /\ thoughts' = m.thoughts
          /\ self_narrative' = m.narrative
          /\ cosd_axes' = m.axes
          /\ semantic_markers' = r.markers
          /\ knowledge_anchors' = r.anchors
          /\ marker_combinations' = r.combinations
    /\ semantic_graph' = EmptyGraph
    /\ usage_patterns' = EmptyCounts
    /\ co_occurrence_matrix' = EmptyCounts
    /\ hash_seed' \in seeds
    /\ instance' = instance + 1
    /\ boot' = BootOf(disk)
    /\ fresh' = TRUE
    /\ answer' = NoAnswer
    /\ UNCHANGED << disk, marker_disk, now, used_ids, stack, running, calls,
                    history >>

(* ----------------------------------------------------------------------- *)
(* Runs with the read operations and a direct save                         *)
(* ----------------------------------------------------------------------- *)
Queries == {"nicht", "task wichtig"}
Topics == {{}, {"reflection"}}
OpsExperiences == {Cascading, Saturated}

NextOps ==
    \/ /\ calls < MaxCalls
       /\ Begin(1, OpsExperiences, {0})
    \/ Step(1, FALSE)
    \/ CallQuery(Queries, {1, 5})
    \/ CallIntrospect(Topics)
    \/ CallSelfReport
    \/ CallSave

SpecOps == InitLong /\ [][NextOps]_vars

(* ----------------------------------------------------------------------- *)
(* Runs over several processes: saves, damaged documents and restarts      *)
(* ----------------------------------------------------------------------- *)
Insight == Experience("learning", "wichtig, super", Flags({"first_time"}))
PersistExperiences == {Insight}
NameLists == {<< "learning_moment", "unregistered", "user_interaction",
                 "learning_moment" >>}

NextPersist ==
    \/ /\ calls < MaxPersistCalls
       /\ Begin(1, PersistExperiences, {0})
    \/ Step(1, FALSE)
    \/ CallSave
    \/ /\ instance < MaxInstances
       /\ \/ Corrupt({"thoughts", "narrative", "axes"})
          \/ Restart({1})

SpecPersist == InitLong /\ [][NextPersist]_vars

NextRoundTrip ==
    \/ /\ calls < MaxPersistCalls
       /\ Begin(1, PersistExperiences, {0})
    \/ Step(1, TRUE)
    \/ CallSave
    \/ UpdateMarkerUsage(NameLists, {TRUE})
    \/ SaveMarkers
    \/ /\ instance < MaxInstances
       /\ Restart({1})

SpecRoundTrip == InitLong /\ [][NextRoundTrip]_vars

(* ----------------------------------------------------------------------- *)
(* Runs of the marker registry within one process                          *)
(* ----------------------------------------------------------------------- *)
RegistryLists ==
    {<< "unregistered" >>,
     << "learning_moment", "unregistered", "unregistered" >>,
     << "user_interaction", "learning_moment" >>}
AnchorLists == {<< >>, << "learning_moment", "unregistered", "learning_moment" >>}
CombinationLists == {<< "learning_moment", "unregistered" >>}
Exported ==
    [name |-> "learning_moment", category |-> "cognition", weight |-> "1.0",
     usage_count |-> "0", last_used |-> IsoFormat(StartClock)]
Custom == [name |-> "teamwork", usage_count |-> "1"]
Nameless == [category |-> "skill"]
CsvFiles == {<< Exported >>, << Custom, Nameless, Exported >>}

NextRegistry ==
    \/ /\ Ticks < MaxTicks
       /\ UpdateMarkerUsage(RegistryLists, {TRUE, FALSE})
    \/ CreateKnowledgeAnchor({"File Skills"}, AnchorLists)
    \/ CreateMarkerCombination({"duo"}, CombinationLists)
    \/ ImportMarkersFromCsv(CsvFiles)
    \/ CallInsights({"learning_moment", "unregistered"})

SpecRegistry == InitLong /\ [][NextRegistry]_vars

(* the read view of the registry, called at once or a day later *)
NextAnalysis ==
    \/ /\ Ticks < MaxTicks
       /\ UpdateMarkerUsage({<< "user_interaction", "learning_moment" >>}, {TRUE})
    \/ CreateKnowledgeAnchor({"File Skills"}, {<< "learning_moment" >>})
    \/ ImportMarkersFromCsv({<< Custom >>})
    \/ CallAnalyze({1, 30}, {0, 1, QuartersPerDay})
    \/ CallInsights({"learning_moment", "self_awareness"})

SpecAnalysis == InitLong /\ [][NextAnalysis]_vars

(* ----------------------------------------------------------------------- *)
(* Runs over the inputs of process_experience: absent, partial and         *)
(* malformed contexts, contents with the cues of several classes           *)
(* ----------------------------------------------------------------------- *)
Praise == Experience("user", "Super, gut gemacht", NoContext)
MixedCues ==
    Experience("note", "Toll, warum kann der User das immer noch nicht?",
               {[k \in {"user_correction"} |-> "no"]})
Plain == Experience("note", "xyz", NoContext)
Interesting == Experience("note", "Das ist interessant und gut", NoContext)
Trouble == Experience("note", "Ein Problem", NoContext)
HelpSelf == Experience("note", "Hilfe, eigene Wege erkunde", NoContext)
OwnWays == Experience("note", "Eigene Wege erkunde", NoContext)
ListContext ==
    Experience("user", "question asked", {[k \in {"__class__"} |-> "list"]})

InputExperiences ==
    {Frustrated, Praise, MixedCues, Plain, Interesting, Trouble, HelpSelf, OwnWays,
     ListContext}

NextInputs ==
    \/ /\ calls < MaxCalls
       /\ Begin(1, InputExperiences, {0})
    \/ Step(1, FALSE)

SpecInputs == InitLong /\ [][NextInputs]_vars

(* ----------------------------------------------------------------------- *)
(* Runs that fill the store with thoughts that connect: two experiences    *)
(* whose thoughts share two of their three tags and the axis, and one      *)
(* with no tag on another axis, a quarter of a second apart                *)
(* ----------------------------------------------------------------------- *)
LearnCode == Experience("note", "ich lerne code", NoContext)
LearnFiles == Experience("note", "ich lerne datei", NoContext)

ConnectExperiences == {LearnCode, LearnFiles, OwnWays}

NextConnect ==
    \/ /\ Len(thoughts) < MaxConnectThoughts
       /\ Begin(1, ConnectExperiences, {0})
    \/ Step(1, FALSE)

SpecConnect == InitLong /\ [][NextConnect]_vars

(* ----------------------------------------------------------------------- *)
(* Runs that move the axes: a corrected failure (frustrated, importance 1, *)
(* with its reflection), a praise, a curious remark and a problem, until   *)
(* an axis has reached its limit                                           *)
(* ----------------------------------------------------------------------- *)
DriftExperiences == {HardFailure, Praise, Interesting, Trouble}

NextDrift ==
    \/ /\ calls < MaxDriftCalls
       /\ Begin(1, DriftExperiences, {0})
    \/ Step(1, FALSE)

SpecDrift == InitLong /\ [][NextDrift]_vars

(* ----------------------------------------------------------------------- *)
(* Runs that fill the notes of one axis: two frustrated experiences with   *)
(* different contents and tags, neither of which is reflected on           *)
(* ----------------------------------------------------------------------- *)
Again == Experience("error", "Schon wieder nicht", NoContext)

NoteExperiences == {Frustrated, Again}

NextNotes ==
    \/ /\ Len(thoughts) < MaxNoteThoughts
       /\ Begin(1, NoteExperiences, {0})
    \/ Step(1, FALSE)

SpecNotes == InitLong /\ [][NextNotes]_vars

(* ----------------------------------------------------------------------- *)
(* Runs with failures: errors that are frustrated, negative or neutral, on *)
(* two axes, and a frustrated experience that is no error                  *)
(* ----------------------------------------------------------------------- *)
CannotDo == Experience("error", "Ich kann das nicht", NoContext)
ErrorOk == Experience("error", "ok", NoContext)

GrowthExperiences == {Again, CannotDo, ErrorOk, Frustrated}

NextGrowth ==
    \/ /\ calls < MaxGrowthCalls
       /\ Begin(1, GrowthExperiences, {0})
    \/ Step(1, FALSE)

SpecGrowth == InitLong /\ [][NextGrowth]_vars

(* ----------------------------------------------------------------------- *)
(* Runs at the edges of the note condition: experiences of importance 1    *)
(* that are frustrated, positive and negative, with their reflections,     *)
(* until the failures have driven their axis to its limit                  *)
(* ----------------------------------------------------------------------- *)
HardProblem ==
    Experience("error", "Ein Problem", Flags({"user_correction", "error_recovery"}))

ShiftExperiences == {HardFailure, Saturated, HardProblem}

NextShift ==
    \/ /\ calls < MaxShiftCalls
       /\ Begin(1, ShiftExperiences, {0})
    \/ Step(1, FALSE)

SpecShift == InitLong /\ [][NextShift]_vars

(* ----------------------------------------------------------------------- *)
(* Two tasks of one event loop calling process_experience                  *)
(* ----------------------------------------------------------------------- *)
NextTasks ==
    \/ /\ calls < MaxCalls
       /\ \E t \in Tasks : Begin(t, Experiences, {0})
    \/ \E t \in Tasks : Step(t, FALSE)

SpecTasks == InitLong /\ [][NextTasks]_vars

(* ======================================================================= *)
(* Properties                                                              *)
(* ======================================================================= *)

(* C1: the current position of every CoSD axis stays within [-1.0, 1.0]    *)
(* at all times, whatever sequence of experiences is processed.            *)
AxisPositionsInRange ==
    \A a \in DOMAIN cosd_axes :
        /\ cosd_axes[a].current_position >= 0 - PosUnit
        /\ cosd_axes[a].current_position <= PosUnit

(* the clamp has acted: corrected failures and their reflections pushed    *)
(* emotional_resonance down to the limit, and the last change, of a        *)
(* magnitude above 0.1, moved the position by less than 0.1.               *)
AxisAtLimit ==
    LET axis == cosd_axes["emotional_resonance"]
    IN /\ axis.current_position = 0 - PosUnit
       /\ 10 * AbsOf(axis.movement_trend) < PosUnit
       /\ Len(axis.reflection_notes) >= 4

(* C2: the importance of every stored thought lies in [0.0, 1.0].          *)
ImportanceInRange ==
    \A i \in 1..Len(thoughts) :
        /\ thoughts[i].importance >= 0
        /\ thoughts[i].importance <= ImpUnit

(* a stored thought whose score before the cap is above 1 *)
ImportanceCapped ==
    \E i \in 1..Len(thoughts) :
        /\ thoughts[i].importance = ImpUnit
        /\ Truthy(Get(thoughts[i].context, "user_correction"))
        /\ Truthy(Get(thoughts[i].context, "first_time"))
        /\ Truthy(Get(thoughts[i].context, "error_recovery"))

(* C3: every top-level call of process_experience terminates: the cascade  *)
(* of reflections it starts is finite, although a reflection can itself    *)
(* trigger a reflection.                                                   *)
CallsTerminate ==
    \A t \in Tasks : (stack[t] # << >>) ~> (stack[t] = << >>)

IsReflection(r) == "trigger_thought_id" \in DOMAIN r.context
IsReflectionOn(r, th) ==
    /\ IsReflection(r)
    /\ r.context["trigger_thought_id"] = ToString(th.id)

(* a finished call whose cascade holds a reflection on a reflection *)
ReflectionOnReflectionDone ==
    /\ Quiescent
    /\ \E i, j \in 1..Len(thoughts) :
          /\ IsReflection(thoughts[i])
          /\ IsReflectionOn(thoughts[j], thoughts[i])

(* C4: a stored thought spawns a reflection exactly when its importance is *)
(* strictly greater than 0.7 or the reflection_trigger marker fired on it: *)
(* 0.70 alone does not trigger, 0.71 does.                                 *)
Spawned(th) == \E j \in 1..Len(thoughts) : IsReflectionOn(thoughts[j], th)

ReflectsExactlyAboveThreshold ==
    /\ Quiescent =>
          \A i \in 1..Len(thoughts) :
              Spawned(thoughts[i]) <=>
                  \/ 10 * thoughts[i].importance > 7 * ImpUnit
                  \/ \E m \in 1..Len(thoughts[i].skk_markers) :
                         thoughts[i].skk_markers[m] = "reflection_trigger"
    /\ ~ShouldReflect((70 * ImpUnit) \div 100, << >>)
    /\ ShouldReflect((71 * ImpUnit) \div 100, << >>)

(* a finished run with a thought of importance exactly 0.7 that spawned    *)
(* nothing, and a thought that spawned a reflection                        *)
AtThresholdNoReflection ==
    /\ Quiescent
    /\ \E i \in 1..Len(thoughts) :
          /\ 10 * thoughts[i].importance = 7 * ImpUnit
          /\ ~Spawned(thoughts[i])
    /\ \E i \in 1..Len(thoughts) : Spawned(thoughts[i])

(* C5: each time the number of stored thoughts reaches a multiple of 10,   *)
(* exactly one save runs at that count, also when a reflection cascade     *)
(* rather than the top-level call reaches the count.                       *)
SavesAt(k) == {i \in 1..Len(save_log) : save_log[i] = k}

OneSavePerTenth ==
    Quiescent =>
        \A k \in 1..Len(thoughts) : k % 10 = 0 => Cardinality(SavesAt(k)) = 1

(* C6: the connections of a stored thought point only to thoughts stored   *)
(* before it: never to itself, and the earlier thought holds no link back. *)
BornAt(id) == CHOOSE i \in 1..Len(born) : born[i] = id

ConnectionsPointBack ==
    \A i \in 1..Len(thoughts) :
        \A j \in 1..Len(thoughts[i].connections) :
            LET c == thoughts[i].connections[j]
                id == thoughts[i].id
            IN /\ c # id
               /\ c \in Range(born)
               /\ BornAt(c) < BornAt(id)
               /\ c \in StoredIds(thoughts) =>
                     id \notin Range(ThoughtOf(thoughts, c).connections)

(* a stored thought connected to an earlier one *)
ConnectedThought ==
    \E i \in 1..Len(thoughts) :
        /\ thoughts[i].connections # << >>
        /\ thoughts[i].connections[1] \in StoredIds(thoughts)

(* C7: once a thought is stored, no later operation of the same instance  *)
(* (process_experience, a cascaded reflection, query_semantic_memory,      *)
(* introspect, generate_self_report, save) changes any of its fields or    *)
(* removes it: the store only grows.                                       *)
StoredThoughtsKept ==
    \A i \in 1..Len(thoughts) :
        /\ Len(thoughts') >= i
        /\ thoughts'[i] = thoughts[i]

ThoughtsNeverChange == [][instance' = instance => StoredThoughtsKept]_vars

(* a query has returned thoughts of a store of four that has been saved *)
QueriedAndSaved ==
    /\ Len(thoughts) >= 4
    /\ answer.op = "query_semantic_memory"
    /\ Len(answer.result) >= 1
    /\ Len(disk.thoughts.entries) >= 4

DefaultWhenUnreadable ==
    fresh =>
        /\ boot.thoughts # "ok" => thoughts = << >>
        /\ boot.narrative # "ok" =>
              self_narrative = FreshNarrative(self_narrative.last_updated)
        /\ boot.axes # "ok" => cosd_axes = DefaultAxes

(* C10: calls of process_experience made by several tasks do not           *)
(* interleave: while a call, its cascade or its save is under way no other *)
(* call is, and when another task can run every stored thought has had its *)
(* narrative and axis updates.                                             *)
NoInterleaving ==
    /\ \A t \in Tasks :
          stack[t] # << >> =>
              /\ running = t
              /\ \A u \in Tasks \ {t} : stack[u] = << >>
    /\ running = 0 => Quiescent

(* both tasks have completed a call, the second one with a cascade *)
BothTasksReturned ==
    /\ returned[1] # 0
    /\ returned[2] # 0
    /\ Len(thoughts) >= 3

(* C11: query_semantic_memory, introspect and generate_self_report are     *)
(* read-only: a step that delivers the answer of one of them leaves the    *)
(* thought store, every thought's fields, the self-narrative, the five     *)
(* drift axes and the semantic graph as they were, and creates no thought  *)
(* (no id is drawn and no thought is born).                                *)
ReadsChangeNothing ==
    [][(answer' # answer) => UNCHANGED << mind, born, used_ids >>]_vars

(* a self-report has been delivered on a store that holds reflections and  *)
(* connected thoughts, with an axis that has moved                         *)
ReportDelivered ==
    /\ answer.op = "generate_self_report"
    /\ Len(thoughts) >= 4
    /\ semantic_graph.edges # {}
    /\ \E i \in 1..Len(thoughts) : IsReflection(thoughts[i])
    /\ \E a \in DOMAIN cosd_axes : cosd_axes[a].current_position # 0

(* C12: no marker's usage_count ever decreases, under any sequence of      *)
(* registry operations after startup; a registered marker stays            *)
(* registered and changes only by usage updates and anchor linkage.        *)
UsageNeverDecreases ==
    [][\A n \in DOMAIN semantic_markers :
          /\ n \in DOMAIN semantic_markers'
          /\ semantic_markers'[n].usage_count >= semantic_markers[n].usage_count]_vars

(* C13: after any sequence of update_marker_usage calls the count of       *)
(* (a, b) equals the count of (b, a) for all names a and b, and a call     *)
(* with fewer than two names or with co_occurring false leaves every       *)
(* co-occurrence count unchanged.                                          *)
CoOccurrenceSymmetric ==
    /\ [](\A i \in 1..Len(co_occurrence_matrix) :
             LET e == co_occurrence_matrix[i]
             IN CountOf(co_occurrence_matrix, << e.key[2], e.key[1] >>) = e.count)
    /\ [][(/\ answer'.op = "update_marker_usage"
           /\ now' # now
           /\ Len(answer'.args[1]) < 2 \/ ~answer'.args[2])
              => co_occurrence_matrix' = co_occurrence_matrix]_vars

(* pairs with a repeated and with an unregistered name have been counted,  *)
(* and the last call, of three names, had co_occurring false               *)
PairsCounted ==
    /\ CountOf(co_occurrence_matrix, << "unregistered", "unregistered" >>) = 2
    /\ CountOf(co_occurrence_matrix, << "unregistered", "learning_moment" >>) = 2
    /\ semantic_markers["learning_moment"].usage_count = 2
    /\ answer.op = "update_marker_usage"
    /\ Len(answer.args[1]) = 3
    /\ ~answer.args[2]

(* C14: an analyze_marker_patterns call returns a result and changes no    *)
(* registry state, and two consecutive calls with the same window and no   *)
(* call between them return identical results.                             *)
AnalysisRepeats ==
    answer.op = "analyze_marker_patterns"
        => /\ answer.result[2] # "NameError"
           /\ (/\ previous.op = "analyze_marker_patterns"
               /\ previous.result[1] = answer.result[1])
                  => answer.result = previous.result

(* C15: create_knowledge_anchor with marker_ids that include unregistered  *)
(* ids does not fail: it stores a new anchor, returns its id, and appends  *)
(* the id exactly once to the connections of each registered marker named  *)
(* in marker_ids and to those of no other marker.                          *)
AnchorLinksRegistered ==
    [][(answer'.op = "create_knowledge_anchor" /\ answer' # answer)
          => /\ Len(knowledge_anchors') = Len(knowledge_anchors) + 1
             /\ SubSeq(knowledge_anchors', 1, Len(knowledge_anchors))
                    = knowledge_anchors
             /\ LET anchor == knowledge_anchors'[Len(knowledge_anchors')]
                IN /\ answer'.result = anchor.id
                   /\ \A i \in 1..Len(knowledge_anchors) :
                         knowledge_anchors[i].id # anchor.id
                   /\ DOMAIN semantic_markers' = DOMAIN semantic_markers
                   /\ \A n \in DOMAIN semantic_markers :
                         semantic_markers'[n] =
                             IF n \in Range(anchor.marker_ids)
                             THEN [semantic_markers[n] EXCEPT
                                      !.connections = Append(@, anchor.id)]
                             ELSE semantic_markers[n]]_vars

(* an anchor naming learning_moment twice and an unregistered id is        *)
(* stored, its id returned and held once by learning_moment                *)
PartialAnchor ==
    /\ answer.op = "create_knowledge_anchor"
    /\ Len(knowledge_anchors) >= 1
    /\ LET anchor == knowledge_anchors[Len(knowledge_anchors)]
       IN /\ answer.result = anchor.id
          /\ "unregistered" \in Range(anchor.marker_ids)
          /\ semantic_markers["learning_moment"].connections = << anchor.id >>
          /\ \A n \in DOMAIN semantic_markers \ {"learning_moment"} :
                anchor.id \notin Range(semantic_markers[n].connections)

(* C16: process_experience returns a thought id without raising, for every *)
(* event_type, content and context value: no call ends in an exception.    *)
NeverRaises == \A t \in Tasks : returned[t] # AttributeError

(* C18: classification is by ordered first match: the tone is the first of *)
(* frustrated, curious, positive, negative whose cue set matches the       *)
(* content, else neutral; the drift axis is the first of competence,       *)
(* relationship, autonomy, curiosity whose cue set matches, else           *)
(* emotional_resonance when the tone is positive, negative or frustrated,  *)
(* else competence_confidence.  The thought of ("user", "Das funktioniert  *)
(* immer noch nicht", {}) is frustrated, on emotional_resonance.           *)
ToneCues ==
    << [class |-> "frustrated",
        cues |-> {"wieder nicht", "immer noch", "verstehe nicht", "funktioniert nicht"}],
       [class |-> "curious",
        cues |-> {"warum", "wie", "was ist", "verstehe", "lerne", "interessant"}],
       [class |-> "positive",
        cues |-> {"erfolgreich", "gelungen", "gut", "freue", "toll", "super", "perfekt"}],
       [class |-> "negative",
        cues |-> {"fehler", "problem", "schwierig", "nicht", "kann nicht", "unmöglich"}] >>

AxisCues ==
    << [class |-> "competence_confidence",
        cues |-> {"kann", "fähig", "erfolgreich", "schaffe"}],
       [class |-> "user_relationship", cues |-> {"benutzer", "user", "hilfe", "zusammen"}],
       [class |-> "autonomy_dependency",
        cues |-> {"selbst", "eigene", "autonome", "entscheide"}],
       [class |-> "curiosity_focus",
        cues |-> {"neugierig", "interessant", "warum", "erkunde"}] >>

FirstMatch(table, text, default) ==
    LET hits == {i \in 1..Len(table) : AnyIn(table[i].cues, text)}
    IN IF hits = {} THEN default
       ELSE table[CHOOSE i \in hits : \A j \in hits : i <= j].class

ClassifiedByFirstMatch ==
    \A i \in 1..Len(thoughts) :
        LET thought == thoughts[i]
            text == Lower(thought.content)
            tone == FirstMatch(ToneCues, text, "neutral")
        IN /\ thought.emotional_tone = tone
           /\ thought.drift_axis =
                 FirstMatch(AxisCues, text,
                            IF tone \in {"positive", "negative", "frustrated"}
                            THEN "emotional_resonance" ELSE "competence_confidence")
           /\ thought.content = "Das funktioniert immer noch nicht"
                 => /\ thought.emotional_tone = "frustrated"
                    /\ thought.drift_axis = "emotional_resonance"

(* the store holds the thought of the scenario and a thought whose content *)
(* has cues of all four tones and of three axes                            *)
MixedCuesClassified ==
    \E i, j \in 1..Len(thoughts) :
        /\ thoughts[i].content = "Das funktioniert immer noch nicht"
        /\ thoughts[i].drift_axis = "emotional_resonance"
        /\ thoughts[j].content = MixedCues.content
        /\ thoughts[j].emotional_tone = "frustrated"
        /\ thoughts[j].drift_axis = "competence_confidence"

(* the change of the preference counters in a step, for the thought of the *)
(* frame that runs the narrative update: bump is whether its tags count    *)
PreferencesStep(bump(_)) ==
    /\ \A tag \in DOMAIN self_narrative.preferences :
          /\ tag \in DOMAIN self_narrative'.preferences
          /\ self_narrative'.preferences[tag] >= self_narrative.preferences[tag]
    /\ (Quiescent' = Quiescent /\ self_narrative' # self_narrative)
        => LET thought == ThoughtOf(thoughts, Top(1).tid)
               old == self_narrative.preferences
               new == self_narrative'.preferences
           IN /\ DOMAIN new =
                    DOMAIN old \cup (IF bump(thought) THEN Range(thought.tags) ELSE {})
              /\ \A tag \in DOMAIN new :
                    new[tag] = (IF tag \in DOMAIN old THEN old[tag] ELSE 0)
                               + (IF bump(thought) /\ tag \in Range(thought.tags)
                                  THEN 1 ELSE 0)

(* C19, as stated: whenever the user_interaction marker fired for a        *)
(* thought, the self-narrative update increments preferences[tag] by       *)
(* exactly 1 for every tag of the thought, whatever its emotional tone;    *)
(* the counters never decrease and are never reset.                        *)
PreferencesCountEveryTone ==
    [][PreferencesStep(LAMBDA thought :
                           "user_interaction" \in Range(thought.skk_markers))]_vars

(* C19, amended: when the user_interaction marker fired for a thought and  *)
(* its emotional tone is positive, the self-narrative update increments    *)
(* preferences[tag] by exactly 1 for every tag of the thought; for every   *)
(* other thought it leaves the counters as they are; within a process the  *)
(* counters never decrease and are never reset.                            *)
PreferencesCountPositive ==
    [][PreferencesStep(LAMBDA thought :
                           /\ "user_interaction" \in Range(thought.skk_markers)
                           /\ thought.emotional_tone = "positive")]_vars

(* a praise of the user has been counted and a frustrated user interaction *)
(* with the same tag has not                                               *)
PraiseCounted ==
    /\ Quiescent
    /\ "user" \in DOMAIN self_narrative.preferences
    /\ self_narrative.preferences["user"] = 1
    /\ \E i, j \in 1..Len(thoughts) :
          /\ "user_interaction" \in Range(thoughts[i].skk_markers)
          /\ thoughts[i].emotional_tone = "frustrated"
          /\ "user" \in Range(thoughts[i].tags)
          /\ "user_interaction" \in Range(thoughts[j].skk_markers)
          /\ thoughts[j].emotional_tone = "positive"

(* the thoughts stored before position i that qualify for a connection of  *)
(* the thought at i, in the order of the store                             *)
Qualifying(i) ==
    SelectSeq(SubSeq(thoughts, 1, i - 1), LAMBDA old : AboveThreshold(thoughts[i], old))

(* the thoughts at i - 1 and i come from consecutive experiences and share *)
(* 2 of 3 tags and the drift axis, have no marker in common and            *)
(* timestamps within the same minute                                       *)
SharesTwoOfThree(i) ==
    LET first == thoughts[i - 1]
        second == thoughts[i]
    IN /\ Cardinality(Range(first.tags)) = 3
       /\ Cardinality(Range(second.tags)) = 3
       /\ Cardinality(Range(first.tags) \cap Range(second.tags)) = 2
       /\ first.drift_axis = second.drift_axis
       /\ Range(first.skk_markers) \cap Range(second.skk_markers) = {}
       /\ AbsOf(Quarters(second.timestamp) - Quarters(first.timestamp)) < 4 * 60

AxesStep(t) ==
    /\ stack[t] # << >>
    /\ Top(t).pc = "axes"
    /\ stack'[t] # << >>
    /\ stack'[t][Len(stack'[t])].pc = "save"

(* f(tone) in twentieths: +0.1, -0.1, -0.2, +0.05, else 0 *)
ToneFactor(tone) ==
    CASE tone = "positive" -> 2
      [] tone = "negative" -> 0 - 2
      [] tone = "frustrated" -> 0 - 4
      [] tone = "curious" -> 1
      [] OTHER -> 0

(* C21: the drift update for one thought changes only the axis named by    *)
(* the thought's drift_axis: its position becomes                          *)
(* clip(old + f(tone) * importance, -1, 1) and its movement_trend becomes  *)
(* new position minus old position; the position, trend, notes and         *)
(* contributing factors of the other four axes are unchanged.              *)
DriftUpdateFrame ==
    [][\A t \in Tasks :
          AxesStep(t)
              => LET thought == ThoughtOf(thoughts, Top(t).tid)
                     old == cosd_axes[thought.drift_axis].current_position
                     delta == ToneFactor(thought.emotional_tone) * thought.importance
                              * (PosUnit \div (20 * ImpUnit))
                     raw == old + delta
                     new == IF raw > PosUnit THEN PosUnit
                            ELSE IF raw < 0 - PosUnit THEN 0 - PosUnit ELSE raw
                 IN /\ DOMAIN cosd_axes' = DOMAIN cosd_axes
                    /\ cosd_axes'[thought.drift_axis].current_position = new
                    /\ cosd_axes'[thought.drift_axis].movement_trend = new - old
                    /\ \A a \in DOMAIN cosd_axes \ {thought.drift_axis} :
                          cosd_axes'[a] = cosd_axes[a]]_vars

(* a failure has found its axis at the lower limit and left it there with *)
(* trend 0, and the axis a curious remark moved up before keeps its        *)
(* position and its trend                                                  *)
TwoAxesMoved ==
    /\ Quiescent
    /\ cosd_axes["emotional_resonance"].current_position = 0 - PosUnit
    /\ cosd_axes["emotional_resonance"].movement_trend = 0
    /\ cosd_axes["curiosity_focus"].current_position > 0
    /\ cosd_axes["curiosity_focus"].movement_trend > 0
    /\ thoughts[Len(thoughts) - 1].emotional_tone = "frustrated"

NoDuplicate(list) == Cardinality(Range(list)) = Len(list)

(* C22: after any sequence of process_experience calls from the default    *)
(* state each axis holds at most 10 reflection_notes, the most recently    *)
(* appended ones in append order (the oldest is dropped when an 11th is    *)
(* appended); contributing_factors of an axis contains no duplicate tag    *)
(* and never loses a tag.                                                  *)
NotesAreTheLatestTen ==
    /\ [](\A a \in DOMAIN cosd_axes :
             /\ Len(cosd_axes[a].reflection_notes) <= 10
             /\ NoDuplicate(cosd_axes[a].contributing_factors))
    /\ [][\A a \in DOMAIN cosd_axes :
             LET notes == cosd_axes[a].reflection_notes
                 factors == cosd_axes[a].contributing_factors
                 appending ==
                     \E t \in Tasks :
                         /\ AxesStep(t)
                         /\ ThoughtOf(thoughts, Top(t).tid).drift_axis = a
                         /\ AbsOf(PositionChange(ThoughtOf(thoughts, Top(t).tid)))
                              > PosUnit \div 10
             IN /\ IF appending
                   THEN \E note \in Range(cosd_axes'[a].reflection_notes) :
                           cosd_axes'[a].reflection_notes =
                               IF Len(notes) < 10 THEN Append(notes, note)
                               ELSE Append(Tail(notes), note)
                   ELSE cosd_axes'[a].reflection_notes = notes
                /\ Len(cosd_axes'[a].contributing_factors) >= Len(factors)
                /\ SubSeq(cosd_axes'[a].contributing_factors, 1, Len(factors))
                      = factors]_vars

(* eleven notes were appended to one axis: the first one is gone, the      *)
(* second is now the oldest and the eleventh the newest                    *)
EleventhNote ==
    /\ Quiescent
    /\ Len(thoughts) = 11
    /\ thoughts[1].content = Again.content
    /\ thoughts[2].content = Frustrated.content
    /\ thoughts[11].content = Again.content
    /\ thoughts[10].content = Frustrated.content
    /\ LET axis == cosd_axes["emotional_resonance"]
       IN /\ Len(axis.reflection_notes) = 10
          /\ axis.reflection_notes[1] =
                "Position shift due to: Das funktioniert immer noch nicht... (Δ-0.12)"
          /\ axis.reflection_notes[10] =
                "Position shift due to: Schon wieder nicht... (Δ-0.12)"
          /\ axis.reflection_notes[9] = axis.reflection_notes[1]
          /\ Range(axis.contributing_factors) = {"interpersonal", "error", "user"}

FiveAxes ==
    {"competence_confidence", "user_relationship", "autonomy_dependency",
     "curiosity_focus", "emotional_resonance"}

(* C23: in every reachable state the set of drift axes is exactly the five *)
(* fixed axes: process_experience never adds or removes an axis, and every *)
(* stored thought's drift_axis names one of the five, so every processed   *)
(* thought updates exactly one axis.                                       *)
AlwaysFiveAxes ==
    /\ [](/\ DOMAIN cosd_axes = FiveAxes
          /\ \A a \in FiveAxes : cosd_axes[a].name = a
          /\ \A i \in 1..Len(thoughts) : thoughts[i].drift_axis \in FiveAxes)
    /\ [][\A t \in Tasks :
             AxesStep(t)
                 => LET a == ThoughtOf(thoughts, Top(t).tid).drift_axis
                    IN /\ cosd_axes'[a].contributing_factors
                            = AddFactors(cosd_axes[a].contributing_factors,
                                         ThoughtOf(thoughts, Top(t).tid).tags)
                       /\ \A b \in FiveAxes \ {a} : cosd_axes'[b] = cosd_axes[b]]_vars

(* a thought that a cue put on user_relationship and one that a cue put on *)
(* competence_confidence have been processed; the other axes are as they   *)
(* were created                                                            *)
CueAxesUpdated ==
    /\ Quiescent
    /\ Len(thoughts) = 2
    /\ thoughts[1].drift_axis = "user_relationship"
    /\ thoughts[2].drift_axis = "competence_confidence"
    /\ cosd_axes["competence_confidence"].current_position < 0
    /\ cosd_axes["competence_confidence"].contributing_factors # << >>
    /\ \A a \in {"autonomy_dependency", "curiosity_focus", "emotional_resonance"} :
          cosd_axes[a] = DefaultAxes[a]

(* C24: marker detection yields a set: each marker fires at most once per  *)
(* experience, so a stored thought's marker list contains no duplicate     *)
(* marker id, also when a marker matches both by a trigger substring in    *)
(* the content and by category = event_type.                               *)
MarkersFireOnce ==
    \A i \in 1..Len(thoughts) : NoDuplicate(thoughts[i].skk_markers)

(* the step of a call that runs _update_self_narrative for the thought of  *)
(* its frame                                                               *)
NarrativeStep(t) ==
    /\ stack[t] # << >>
    /\ Top(t).pc = "narrative"
    /\ stack'[t] # << >>
    /\ stack'[t][Len(stack'[t])].pc = "axes"

AxisTitle ==
    [competence_confidence |-> "Improve competence confidence",
     user_relationship |-> "Improve user relationship",
     autonomy_dependency |-> "Improve autonomy dependency",
     curiosity_focus |-> "Improve curiosity focus",
     emotional_resonance |-> "Improve emotional resonance"]

(* C25: growth_areas never contains the same string twice and never loses  *)
(* an entry; an entry "Improve <axis name with spaces>" is appended only   *)
(* when a processed thought has tone frustrated or negative and "error"    *)
(* among its tags, so after any sequence of process_experience calls from  *)
(* the default state the list has at most five entries.                    *)
GrowthAreasDistinct ==
    /\ [](/\ NoDuplicate(self_narrative.growth_areas)
          /\ Len(self_narrative.growth_areas) <= 5
          /\ Range(self_narrative.growth_areas)
                \subseteq {AxisTitle[a] : a \in DOMAIN AxisTitle})
    /\ [][\/ self_narrative'.growth_areas = self_narrative.growth_areas
          \/ \E t \in Tasks :
                /\ NarrativeStep(t)
                /\ LET thought == ThoughtOf(thoughts, Top(t).tid)
                   IN /\ thought.emotional_tone \in {"frustrated", "negative"}
                      /\ "error" \in Range(thought.tags)
                      /\ self_narrative'.growth_areas =
                            Append(self_narrative.growth_areas,
                                   AxisTitle[thought.drift_axis])]_vars

(* two failures on different axes are listed once each, after a third      *)
(* failure on the axis of the first                                        *)
FailureRepeated ==
    /\ Quiescent
    /\ Len(thoughts) = 3
    /\ thoughts[1].content = Again.content
    /\ thoughts[2].content = CannotDo.content
    /\ thoughts[3].content = Again.content
    /\ self_narrative.growth_areas =
          << "Improve emotional resonance", "Improve competence confidence" >>

(* C26: the strength of an anchor created by create_knowledge_anchor is    *)
(* the mean weight of its markers clipped to [0, 1]; unregistered ids in   *)
(* marker_ids are skipped, so the strength is the mean weight of the       *)
(* registered markers among marker_ids, and it is 0 for an empty           *)
(* marker_ids.                                                             *)
StrengthIsMeanOfRegistered ==
    [][Len(knowledge_anchors') > Len(knowledge_anchors)
          => LET anchor == knowledge_anchors'[Len(knowledge_anchors')]
                 known == SelectSeq(anchor.marker_ids,
                                    LAMBDA id : id \in DOMAIN semantic_markers)
                 total[i \in 0..Len(known)] ==
                     IF i = 0 THEN 0
                     ELSE LET prev == total[i - 1]
                          IN prev + semantic_markers[known[i]].weight
                 mean_num == IF total[Len(known)] > 10 * Len(known)
                             THEN 10 * Len(known) ELSE total[Len(known)]
             IN IF known = << >> THEN anchor.strength.num = 0
                ELSE anchor.strength.num * 10 * Len(known)
                       = mean_num * anchor.strength.den]_vars

IndexOf(list, x) == CHOOSE i \in 1..Len(list) : list[i] = x

(* C27: when a thought T triggers a reflection R inside one call, R is     *)
(* stored after T, yet the self-narrative update and the drift-axis update *)
(* of R (and of every deeper reflection) are applied before those of T:    *)
(* whenever an update runs, it is for the newest thought of the cascade,   *)
(* and every thought of the cascade stored before it still waits for its   *)
(* own updates at the call of the reflection it triggered.                 *)
CascadeUpdatesInReverse ==
    [][\A t \in Tasks :
          (NarrativeStep(t) \/ AxesStep(t))
              => /\ \A i \in 1..(Len(stack[t]) - 1) :
                       LET waiting == stack[t][i]
                           inner == ThoughtOf(thoughts, stack[t][i + 1].tid)
                       IN /\ waiting.pc = "narrative"
                          /\ waiting.tid \in reflected
                          /\ inner.context["trigger_thought_id"] = ToString(waiting.tid)
                          /\ IndexOf(born, waiting.tid) < IndexOf(born, inner.id)
                 /\ \A i \in 1..Len(thoughts) :
                       IndexOf(born, thoughts[i].id) > IndexOf(born, Top(t).tid)
                           => \A j \in 1..Len(stack[t]) : stack[t][j].tid # thoughts[i].id]_vars

(* a cascade two reflections deep has ended: on the axis that the first   *)
(* reflection and the reflection on it share, the tag only the first has   *)
(* is the last factor and the trend is the one the first left, so the      *)
(* update for the deeper reflection ran before                             *)
ReflectionUpdatedFirst ==
    /\ Quiescent
    /\ \E i \in 2..(Len(thoughts) - 1) :
          LET trigger == thoughts[i]
              reflection == thoughts[i + 1]
              axis == cosd_axes[trigger.drift_axis]
          IN /\ trigger.id \in reflected
             /\ thoughts[i - 1].id \in reflected
             /\ "trigger_thought_id" \in DOMAIN trigger.context
             /\ trigger.context["trigger_thought_id"] = ToString(thoughts[i - 1].id)
             /\ "trigger_thought_id" \in DOMAIN reflection.context
             /\ reflection.context["trigger_thought_id"] = ToString(trigger.id)
             /\ reflection.drift_axis = trigger.drift_axis
             /\ \E own \in Range(trigger.tags) \ Range(reflection.tags) :
                   axis.contributing_factors[Len(axis.contributing_factors)] = own
             /\ PositionChange(trigger) # PositionChange(reflection)
             /\ axis.movement_trend = PositionChange(trigger)

(* C28: in every reachable state the semantic graph mirrors the thought    *)
(* store: its node set is the set of stored thought ids and it has an edge *)
(* t -> c exactly for every id c in t.connections, also after the state    *)
(* was loaded from the persisted documents at startup.                     *)
GraphMirrorsStore ==
    /\ semantic_graph.nodes = {thoughts[i].id : i \in 1..Len(thoughts)}
    /\ semantic_graph.edges =
          UNION {{<< thoughts[i].id, c >> : c \in Range(thoughts[i].connections)} :
                    i \in 1..Len(thoughts)}

(* C29: a reflection note is appended to an axis only when a frustrated    *)
(* thought with importance strictly above 0.5 is processed: positive,      *)
(* negative, curious and neutral thoughts never append a note, and the     *)
(* note is appended also when the position is already clamped at -1 and    *)
(* does not move.                                                          *)
NotesOnlyForFrustration ==
    [][\A a \in DOMAIN cosd_axes :
          LET notes == cosd_axes[a].reflection_notes
              after == cosd_axes'[a].reflection_notes
              frustrated ==
                  \E t \in Tasks :
                      /\ AxesStep(t)
                      /\ LET thought == ThoughtOf(thoughts, Top(t).tid)
                         IN /\ thought.drift_axis = a
                            /\ thought.emotional_tone = "frustrated"
                            /\ 2 * thought.importance > ImpUnit
          IN IF frustrated
             THEN /\ Len(after) = (IF Len(notes) < 10 THEN Len(notes) + 1 ELSE 10)
                  /\ \E t \in Tasks :
                        /\ AxesStep(t)
                        /\ StartsWith(after[Len(after)],
                                      "Position shift due to: "
                                      \o Prefix(ThoughtOf(thoughts, Top(t).tid).content, 50))
             ELSE after = notes]_vars

(* a failure found its axis at -1, left it there and still wrote its note; *)
(* the positive and the negative thought of importance 1 on the same axis  *)
(* wrote none                                                              *)
NoteWithoutMove ==
    \E i \in 1..Len(thoughts) :
        /\ Quiescent
        /\ thoughts[i].emotional_tone = "frustrated"
        /\ thoughts[i].importance = ImpUnit
        /\ thoughts[i].id = returned[1]
        /\ LET axis == cosd_axes[thoughts[i].drift_axis]
           IN /\ axis.current_position = 0 - PosUnit
              /\ axis.movement_trend = 0
              /\ Len(axis.reflection_notes) = 4

(* C30: each top-level process_experience call returns the id of the       *)
(* thought created for the caller's experience, never the id of a cascaded *)
(* reflection; on return that id is a key of the thought store, and the    *)
(* call has added exactly 1 + r thoughts, r being the number of            *)
(* reflections in its cascade, each reflection carrying in its context a   *)
(* trigger_thought_id that is the id of an already stored thought.         *)
ReturnsOwnThought ==
    /\ [](/\ \A j \in 1..Len(thoughts) :
                IsReflection(thoughts[j])
                    => \E i \in 1..(j - 1) :
                          /\ thoughts[j].context["trigger_thought_id"]
                               = ToString(thoughts[i].id)
                          /\ thoughts[i].id \in reflected
          /\ Quiescent
                => /\ Cardinality({j \in 1..Len(thoughts) : ~IsReflection(thoughts[j])})
                        = calls
                   /\ Cardinality({j \in 1..Len(thoughts) : IsReflection(thoughts[j])})
                        = Cardinality(reflected)
                   /\ Len(thoughts) = calls + Cardinality(reflected))
    /\ [][\A t \in Tasks :
             (stack[t] # << >> /\ stack'[t] = << >>)
                 => /\ \E i \in 1..Len(thoughts) :
                          /\ thoughts[i].id = returned'[t]
                          /\ thoughts[i].content = Top(t).content
                          /\ ~IsReflection(thoughts[i])
                          /\ \A j \in (i + 1)..Len(thoughts) : IsReflection(thoughts[j])
                          /\ Len(thoughts) - i
                               = Cardinality({j \in i..Len(thoughts) :
                                                 thoughts[j].id \in reflected})
                    /\ thoughts' = thoughts]_vars

(* a call whose cascade stored two reflections has returned the id of the  *)
(* thought stored first of the three                                       *)
ReturnedTriggerOfCascade ==
    /\ Quiescent
    /\ Len(thoughts) >= 3
    /\ returned[1] = thoughts[Len(thoughts) - 2].id
    /\ ~IsReflection(thoughts[Len(thoughts) - 2])
    /\ IsReflection(thoughts[Len(thoughts) - 1])
    /\ IsReflection(thoughts[Len(thoughts)])

====
